---- MODULE Spec2Model ----
(***************************************************************************)
(* Verification model of the scripting runtime: the tracing collector      *)
(* (gc.h, gc.cpp), the class method tables (value.cpp), the bytecode       *)
(* compiler (compiler.cpp) and the virtual machine (vm.cpp).               *)
(*                                                                         *)
(* Each subsystem has its own specification over the shared variable list: *)
(*   SpecGC     the collector driven by host operations                    *)
(*   SpecKlass  define / remove / lookup on a chain of classes             *)
(*   SpecVM     VM::run on hand-assembled and on compiled programs         *)
(***************************************************************************)
EXTENDS Integers, Sequences, FiniteSets, TLC

(***************************************************************************)
(* Bounds of the model.                                                    *)
(***************************************************************************)
\* Cells ever allocated in one behaviour of the collector model.
MaxCells == 3
\* Root objects alive at the same time.
MaxRoots == 2
\* Entries of one payload's vector of Ptr (Node::edges in gc_test.cpp).
MaxEdges == 1
\* Cells the Context allocated and rooted for good before the behaviour
\* starts (bootstrap classes and builtins); they only count in allocations.
BootCells == 126

\* Classes of the class model, see base.
NClasses == 3
\* Distinct method values passed to Klass::define.
NValues == 2
\* Validity tokens ever allocated in one behaviour of the class model.
MaxTokens == 5

\* Initial collection treshold, gc.cpp:61 and the floor in gc.h:393.
MinTreshold == 128

\* Nesting depth of the source texts given to the compiler on its own.
MaxNest == 3

\* Classes made by Class.subclass after the bootstrap.
MaxSubclasses == 2

\* Length of the byte strings given to quote_string.
MaxLen == 3

\* Width of int64_t in the model of the Int methods: the arithmetic of the
\* methods is the same at every width, the model has IntBits bits for 64.
IntBits == 4

\* First marker literal of each kind in the source programs of the VM
\* model; the other integer literals of the programs are below RegBase.
RegBase == 100
RunBase == 200
ChkBase == 300
ThrowBase == 400
DepthBase == 500

(***************************************************************************)
(* State of the collector.                                                 *)
(*   boxes       every Box header ever allocated, by cell id               *)
(*   box_head    the linked list of boxes, head first                      *)
(*   root_head   the linked list of roots, head first; each entry is the   *)
(*               cell its Root<Ptr<T>>::inner points to (0: null Ptr)      *)
(*   hptr        one unrooted Ptr variable of the host (0: null Ptr)       *)
(*   allocations, treshold   the counters of Collector                     *)
(*   collected   history: TRUE iff the last step ran Collector::collect     *)
(***************************************************************************)
VARIABLES boxes, box_head, root_head, hptr, allocations, treshold, collected

gcvars == <<boxes, box_head, root_head, hptr, allocations, treshold, collected>>

(***************************************************************************)
(* State of the class chain.                                               *)
(*   methods   Klass::methods of every class: class -> name -> MethodEntry *)
(*   tokens    the bool cells allocated for MethodEntry::valid, by id      *)
(*   ret       history: the last call made on a class and what it returned *)
(***************************************************************************)
VARIABLES methods, tokens, ret

klvars == <<methods, tokens, ret>>

(***************************************************************************)
(* State of the virtual machine and of the heap cells it works on; the     *)
(* fields are described with the VM's operations below.                    *)
(*   prog     the program loaded in the heap (its number)                  *)
(*   protos   the FunctionProto cells of the heap, by id                   *)
(*   main     the Function cell the host calls                             *)
(*   result   what VM::run returned or threw                               *)
(*   invalid  the Function cells a collection has invalidated              *)
(*   foreign  history: the foreign functions that are inside a nested      *)
(*            VM::call, innermost last, each with the stacks of the VM at  *)
(*            the time it was called                                       *)
(***************************************************************************)
VARIABLES prog, protos, main, status, data_stack, call_stack, exception_stack,
          exception_thrown, fns, ups, objs, log, nextid, result, invalid,
          foreign

vmvars == <<prog, protos, main, status, data_stack, call_stack, exception_stack,
            exception_thrown, fns, ups, objs, log, nextid, result, invalid,
            foreign>>

(***************************************************************************)
(* What the host observed.                                                 *)
(*   deref    history: the Ptr the host dereferenced in the last step (0:  *)
(*            null Ptr) and the outcome, [ptr, outcome, payload]           *)
(*   unit     a source text handed to the compiler and what came of it,    *)
(*            [ctx, leaf, state, error]: the expression leaf nested in     *)
(*            the constructs ctx (outermost first); state is "source",     *)
(*            "compiled", or "rejected" with the message error of the      *)
(*            exception thrown by Compiler::compile                        *)
(*   calc     a method of Int applied to operands and what came of it,     *)
(*            [op, x, y, kind, n, msg]: kind is "input" before the call,   *)
(*            then "value" with the Int n returned, "throw" with the       *)
(*            message msg of the script error, or "fault" when the         *)
(*            process was stopped by the hardware                          *)
(*   context  the classes of a Context, [cells, cls, stage]: cells holds   *)
(*            the fields klass and base of every Klass allocated (0: the   *)
(*            null Ptr, no base), cls the class fields of the Context,     *)
(*            stage how far the bootstrap has come                         *)
(*   text     a byte string and its way through strings.cpp, [s, signed,   *)
(*            quoted, back, stage]: s is the string, signed tells whether  *)
(*            char is a signed type in this build, quoted is               *)
(*            quote_string(s) once stage is "quoted", and back is          *)
(*            unquote_string(quoted) once stage is "unquoted"              *)
(*   rootlist the doubly linked list of the RootBase objects of one        *)
(*            Collector, [head, nodes]: head is Collector::root_head and   *)
(*            nodes holds, for every address a Root can have, whether a    *)
(*            Root lives there, its prev and next (0: nullptr) and its     *)
(*            inner value                                                  *)
(***************************************************************************)
VARIABLES deref, unit, calc, context, text, rootlist

hostvars == <<deref, unit, calc, context, text, rootlist>>

vars == <<gcvars, klvars, vmvars, hostvars>>

\* What a specification of one subsystem leaves alone.
nongc == <<klvars, vmvars, unit, calc, context, text, rootlist>>
nonkl == <<gcvars, vmvars, hostvars>>

Max(a, b) == IF a >= b THEN a ELSE b

\* detail::BoxBase::BoxBase: a fresh header; the payload has no Ptr yet.
BoxBase == [valid |-> TRUE, marked |-> FALSE, ptrs |-> 0, freed |-> FALSE,
            edges |-> <<>>]

\* Ptr<T>::Ptr(BoxBase*) and the copy constructor: one more weak pointer.
PtrCopy(bx, c) == IF c = 0 THEN bx ELSE [bx EXCEPT ![c].ptrs = @ + 1]

\* Ptr<T>::~Ptr: one weak pointer less.
PtrDrop(bx, c) == IF c = 0 THEN bx ELSE [bx EXCEPT ![c].ptrs = @ - 1]

\* Ptr<T>::valid.
PtrValid(bx, c) == c # 0 /\ bx[c].valid

\* A variant of ptr_address that checks the box pointer only.
ptr_address_unchecked(bx, c) ==
    IF c = 0 THEN {[ptr |-> c, outcome |-> "error", payload |-> <<>>]}
    ELSE {[ptr |-> c, outcome |-> "value", payload |-> bx[c].edges]}

\* Ptr<T>::address, as get, operator* and operator-> use it: the payload of
\* the cell, or the std::runtime_error thrown for an invalid Ptr.  The
\* header of a deleted box is freed memory: reading it may yield anything.
ptr_address(bx, c) ==
    IF c # 0 /\ bx[c].freed
    THEN {[ptr |-> c, outcome |-> o, payload |-> bx[c].edges] :
             o \in {"error", "value"}}
    ELSE IF ~PtrValid(bx, c)
    THEN {[ptr |-> c, outcome |-> "error", payload |-> <<>>]}
    ELSE {[ptr |-> c, outcome |-> "value", payload |-> bx[c].edges]}

\* The tracer lambda of Collector::collect: marks and queues a valid,
\* not yet marked box.  st = [bx, queue].
tracer(st, c) ==
    IF PtrValid(st.bx, c) /\ ~st.bx[c].marked
    THEN [bx |-> [st.bx EXCEPT ![c].marked = TRUE], queue |-> Append(st.queue, c)]
    ELSE st

\* Trace<std::vector<Ptr<T>>>: the tracer over each Ptr in order.
RECURSIVE TraceVector(_, _)
TraceVector(st, ps) ==
    IF ps = <<>> THEN st ELSE TraceVector(tracer(st, Head(ps)), Tail(ps))

\* The queue loop of the mark phase: pop the back, trace its payload.
RECURSIVE MarkQueue(_)
MarkQueue(st) ==
    IF st.queue = <<>> THEN st.bx
    ELSE LET n == Len(st.queue)
             c == st.queue[n]
             st1 == [st EXCEPT !.queue = SubSeq(st.queue, 1, n - 1)]
         IN MarkQueue(TraceVector(st1, st1.bx[c].edges))

\* The cells some Ptr refers to, in address order.
Counted(bx) ==
    LET F[n \in 0..Len(bx)] ==
            IF n = 0 THEN <<>>
            ELSE IF bx[n].ptrs > 0 THEN Append(F[n - 1], n) ELSE F[n - 1]
    IN F[Len(bx)]

\* A mark phase that traces every cell with a nonzero Ptr count as well.
collect_mark_weak(bx, roots) ==
    MarkQueue(TraceVector([bx |-> bx, queue |-> <<>>], roots \o Counted(bx)))

\* Mark phase: every registered root is traced, then the queue is drained.
collect_mark(bx, roots) == MarkQueue(TraceVector([bx |-> bx, queue |-> <<>>], roots))

\* detail::Box<T>::destroy: the payload destructor drops every Ptr it holds.
RECURSIVE DropAll(_, _)
DropAll(bx, ps) ==
    IF ps = <<>> THEN bx ELSE DropAll(PtrDrop(bx, Head(ps)), Tail(ps))

destroy(bx, c) == [DropAll(bx, bx[c].edges) EXCEPT ![c].edges = <<>>]

\* A sweep that frees the header of every unmarked box, whatever its Ptr
\* count.
RECURSIVE collect_sweep_free(_, _)
collect_sweep_free(st, list) ==
    IF list = <<>> THEN st
    ELSE LET c == Head(list)
             next == Tail(list)
         IN IF st.bx[c].marked
            THEN collect_sweep_free([st EXCEPT !.bx[c].marked = FALSE,
                                               !.head = <<c>> \o st.head], next)
            ELSE LET bx1 == IF st.bx[c].valid
                            THEN [destroy(st.bx, c) EXCEPT ![c].valid = FALSE]
                            ELSE st.bx
                 IN collect_sweep_free([bx |-> [bx1 EXCEPT ![c].freed = TRUE],
                                        head |-> st.head,
                                        allocations |-> st.allocations - 1], next)

\* Sweep phase over the old list; st = [bx, head, allocations] where head is
\* the list being rebuilt (each kept box is pushed at its front).
RECURSIVE collect_sweep(_, _)
collect_sweep(st, list) ==
    IF list = <<>> THEN st
    ELSE LET c == Head(list)
             next == Tail(list)
         IN IF st.bx[c].marked
            THEN collect_sweep([st EXCEPT !.bx[c].marked = FALSE,
                                          !.head = <<c>> \o st.head], next)
            ELSE LET bx1 == IF st.bx[c].valid
                            THEN [destroy(st.bx, c) EXCEPT ![c].valid = FALSE]
                            ELSE st.bx
                 IN IF bx1[c].ptrs = 0
                    THEN collect_sweep([bx |-> [bx1 EXCEPT ![c].freed = TRUE],
                                        head |-> st.head,
                                        allocations |-> st.allocations - 1], next)
                    ELSE collect_sweep([bx |-> bx1,
                                        head |-> <<c>> \o st.head,
                                        allocations |-> st.allocations], next)

\* Collector::collect on the collector state g = [bx, head, allocations].
collect(g, roots) ==
    collect_sweep([bx |-> collect_mark(g.bx, roots), head |-> <<>>,
                   allocations |-> g.allocations], g.head)

\* A variant of alloc_check that doubles the treshold.
alloc_check_doubling(g, roots, tres) ==
    IF g.allocations >= tres
    THEN LET g1 == collect(g, roots)
         IN [bx |-> g1.bx, head |-> g1.head, allocations |-> g1.allocations,
             treshold |-> Max(tres * 2, MinTreshold), ran |-> TRUE]
    ELSE [bx |-> g.bx, head |-> g.head, allocations |-> g.allocations,
          treshold |-> tres, ran |-> FALSE]

\* The head of Collector::alloc: collect when the treshold is reached and
\* then raise the treshold.  Yields [bx, head, allocations, treshold, ran].
alloc_check(g, roots, tres) ==
    IF g.allocations >= tres
    THEN LET g1 == collect(g, roots)
         IN [bx |-> g1.bx, head |-> g1.head, allocations |-> g1.allocations,
             treshold |-> Max(g1.allocations * 2, MinTreshold), ran |-> TRUE]
    ELSE [bx |-> g.bx, head |-> g.head, allocations |-> g.allocations,
          treshold |-> tres, ran |-> FALSE]

GcState == [bx |-> boxes, head |-> box_head, allocations |-> allocations]

\* Cells reachable from the Ptr values in `from` through the payloads of
\* valid cells (what a trace from `from` can visit).
RECURSIVE ReachFrom(_, _)
ReachFrom(bx, seen) ==
    LET more == {c \in 1..Len(bx) :
                    /\ c \notin seen
                    /\ \E a \in seen : bx[a].valid /\
                          \E i \in 1..Len(bx[a].edges) : bx[a].edges[i] = c}
    IN IF more = {} THEN seen ELSE ReachFrom(bx, seen \cup more)

SeqRange(s) == {s[i] : i \in 1..Len(s)}

\* Cells reachable from the registered roots.
RootReach == ReachFrom(boxes, SeqRange(root_head) \ {0})

\* Every Ptr value the host can get hold of: its roots, its own Ptr
\* variable, and what dereferencing valid cells from there yields.
HostReach == ReachFrom(boxes, (SeqRange(root_head) \cup {hptr}) \ {0})

(***************************************************************************)
(* Class method tables (value.cpp).                                        *)
(***************************************************************************)

\* Method names used by the host.
Names == {"foo"}

\* Klass::base of class k; 0 stands for std::nullopt.  Classes 1, 2, 3 are
\* base, middle and derived of ValueTest.MethodLookup; class 4 is a second
\* subclass of class 2 and the classes from 5 on are subclasses of class 1
\* (Right and the primitive classes in the VM model).
base(k) == IF k <= 3 THEN k - 1 ELSE IF k = 4 THEN 2 ELSE 1

\* No entry under a name in Klass::methods.
NoEntry == [has |-> FALSE, value |-> 0, own |-> FALSE, valid |-> 0]

\* detail::MethodEntry.
MethodEntry(v, o, t) == [has |-> TRUE, value |-> v, own |-> o, valid |-> t]

\* std::nullopt as the result of lookup_rec / remove.
NotFound(ms, toks) ==
    [methods |-> ms, tokens |-> toks, found |-> FALSE, value |-> 0, valid |-> 0]

\* A variant of Klass::lookup_rec that trusts every entry it finds, whatever
\* its token says.
RECURSIVE lookup_rec_stale(_, _, _, _)
lookup_rec_stale(ms, toks, k, name) ==
    LET e == ms[k][name]
    IN IF e.has
       THEN [methods |-> ms, tokens |-> toks, found |-> TRUE,
             value |-> e.value, valid |-> e.valid]
       ELSE LET r == IF base(k) # 0 THEN lookup_rec_stale(ms, toks, base(k), name)
                     ELSE NotFound(ms, toks)
            IN IF r.found
               THEN [r EXCEPT !.methods[k][name] = MethodEntry(r.value, FALSE, r.valid)]
               ELSE r

\* A variant of Klass::lookup_rec that stores what it found as an entry of
\* the class itself.
RECURSIVE lookup_rec_adopt(_, _, _, _)
lookup_rec_adopt(ms, toks, k, name) ==
    LET e == ms[k][name]
    IN IF e.has /\ (e.own \/ toks[e.valid])
       THEN [methods |-> ms, tokens |-> toks, found |-> TRUE,
             value |-> e.value, valid |-> e.valid]
       ELSE LET ms1 == IF e.has THEN [ms EXCEPT ![k][name] = NoEntry] ELSE ms
                r == IF base(k) # 0 THEN lookup_rec_adopt(ms1, toks, base(k), name)
                     ELSE NotFound(ms1, toks)
            IN IF r.found
               THEN [r EXCEPT !.methods[k][name] = MethodEntry(r.value, TRUE, r.valid)]
               ELSE r

\* Klass::lookup_rec on class k: yields the tables after the call and the
\* optional pair (value, token).
RECURSIVE lookup_rec(_, _, _, _)
lookup_rec(ms, toks, k, name) ==
    LET e == ms[k][name]
    IN IF e.has /\ (e.own \/ toks[e.valid])
       THEN [methods |-> ms, tokens |-> toks, found |-> TRUE,
             value |-> e.value, valid |-> e.valid]
       ELSE LET ms1 == IF e.has THEN [ms EXCEPT ![k][name] = NoEntry] ELSE ms
                r == IF base(k) # 0 THEN lookup_rec(ms1, toks, base(k), name)
                     ELSE NotFound(ms1, toks)
            IN IF r.found
               THEN [r EXCEPT !.methods[k][name] = MethodEntry(r.value, FALSE, r.valid)]
               ELSE r

\* Klass::lookup.
lookup(ms, toks, k, name) == lookup_rec(ms, toks, k, name)

\* A variant of Klass::remove that erases the entry without asking whether
\* the class owns it.
remove_cached(ms, toks, k, name) ==
    LET e == ms[k][name]
    IN IF e.has
       THEN [methods |-> [ms EXCEPT ![k][name] = NoEntry],
             tokens |-> IF e.own THEN [toks EXCEPT ![e.valid] = FALSE] ELSE toks,
             found |-> e.own, value |-> IF e.own THEN e.value ELSE 0, valid |-> 0]
       ELSE NotFound(ms, toks)

\* Klass::remove.
remove(ms, toks, k, name) ==
    LET e == ms[k][name]
    IN IF e.has /\ e.own
       THEN [methods |-> [ms EXCEPT ![k][name] = NoEntry],
             tokens |-> [toks EXCEPT ![e.valid] = FALSE],
             found |-> TRUE, value |-> e.value, valid |-> 0]
       ELSE NotFound(ms, toks)

\* Klass::define_fixup without the invalidation of the owner's token.
RECURSIVE define_fixup_keep(_, _, _)
define_fixup_keep(st, k, name) ==
    LET e == st.methods[k][name]
    IN IF e.has /\ e.own
       THEN st
       ELSE LET st1 == IF e.has
                       THEN [st EXCEPT !.methods[k][name] = NoEntry]
                       ELSE st
            IN IF base(k) # 0 THEN define_fixup_keep(st1, base(k), name) ELSE st1

\* Klass::define_fixup on class k; st = [methods, tokens].
RECURSIVE define_fixup(_, _, _)
define_fixup(st, k, name) ==
    LET e == st.methods[k][name]
    IN IF e.has /\ e.own
       THEN [methods |-> [st.methods EXCEPT ![k][name].valid = Len(st.tokens) + 1],
             tokens |-> Append([st.tokens EXCEPT ![e.valid] = FALSE], TRUE)]
       ELSE LET st1 == IF e.has
                       THEN [st EXCEPT !.methods[k][name] = NoEntry]
                       ELSE st
            IN IF base(k) # 0 THEN define_fixup(st1, base(k), name) ELSE st1

\* Klass::define on class k; st = [methods, tokens].
define(st, k, name, value) ==
    LET e == st.methods[k][name]
    IN IF e.has /\ e.own
       THEN [methods |-> [st.methods EXCEPT ![k][name] =
                             MethodEntry(value, TRUE, Len(st.tokens) + 1)],
             tokens |-> Append([st.tokens EXCEPT ![e.valid] = FALSE], TRUE)]
       ELSE LET st1 == IF base(k) # 0 THEN define_fixup(st, base(k), name) ELSE st
            IN [methods |-> [st1.methods EXCEPT ![k][name] =
                                MethodEntry(value, TRUE, Len(st1.tokens) + 1)],
                tokens |-> Append(st1.tokens, TRUE)]

\* The classes right after construction: empty method tables.
NewKlass ==
    /\ methods = [k \in 1..NClasses |-> [n \in Names |-> NoEntry]]
    /\ tokens = <<>>
    /\ ret = [op |-> "none", klass |-> 0, name |-> "", found |-> FALSE, value |-> 0]

\* The classes while another subsystem is exercised.
IdleKlass == NewKlass

(***************************************************************************)
(* Values (value.h).  A Value is a record [t, n, s]: t is the alternative  *)
(* of the variant, n its integer payload (the int, the bool as 0 / 1, the  *)
(* id of the Function, Object or bound self), s its string payload (the    *)
(* string, the name of a CppFunction).                                     *)
(***************************************************************************)
NilV == [t |-> "nil", n |-> 0, s |-> ""]
BoolV(b) == [t |-> "bool", n |-> IF b THEN 1 ELSE 0, s |-> ""]
IntV(i) == [t |-> "int", n |-> i, s |-> ""]
StrV(str) == [t |-> "str", n |-> 0, s |-> str]
FnV(f) == [t |-> "fn", n |-> f, s |-> ""]
CppV(name) == [t |-> "cpp", n |-> 0, s |-> name]
ObjV(o) == [t |-> "obj", n |-> o, s |-> ""]

\* An absent std::optional<Value>.
NoneV == [t |-> "none", n |-> 0, s |-> ""]

\* Instruction(op, arg); the argument field has 27 bits.
ArgMod == 134217728
Instruction(op, arg) == [op |-> op, arg |-> arg % ArgMod]
Instr(op) == [op |-> op, arg |-> 0]

\* Classes of the VM model, by id: Object, the three classes of
\* VmTest.Methods (Base, Left, Right) and the primitive classes of Context.
ObjectCls == 1
BaseCls == 2
LeftCls == 3
RightCls == 4
NilCls == 5
BoolCls == 6
IntCls == 7
StringCls == 8
FunctionCls == 9
VmClasses == 1..9

\* Value::class_of; objs is the table of Object cells.
class_of(os, v) ==
    CASE v.t = "nil" -> NilCls
      [] v.t = "bool" -> BoolCls
      [] v.t = "int" -> IntCls
      [] v.t = "str" -> StringCls
      [] v.t = "fn" -> FunctionCls
      [] v.t = "cpp" -> FunctionCls
      [] OTHER -> os[v.n].klass

(***************************************************************************)
(* The virtual machine (vm.cpp).  Its operations are operators on the      *)
(* record m of the VM's fields and of the heap cells it works on:          *)
(*   data_stack   DataFrame [value, upvalue (0: none), id]; id is history: *)
(*                the serial number of the push that created the slot      *)
(*   call_stack   CallFrame [func, ip, data_bottom, exception_bottom]      *)
(*   exception_stack   ExceptionFrame [data_bottom, call_bottom, address]  *)
(*   exception_thrown                                                      *)
(*   fns    Function cells [proto, upvalues]                               *)
(*   ups    Upvalue cells [open, idx, value, origin]: open with the        *)
(*          absolute index idx, or closed with value; origin is history:   *)
(*          the id of the slot the upvalue was made for                    *)
(*   objs   Object cells [klass, properties]                               *)
(*   methods, tokens   the class tables                                    *)
(*   log    history: the marker constants (integers from RegBase on) that  *)
(*          GetConst has loaded so far, in order                           *)
(*   status "idle", "running", "returned", "thrown", "abort" when an       *)
(*          assert of the VM fails, or "error" when a std::runtime_error   *)
(*          leaves the VM                                                  *)
(***************************************************************************)
Running(m) == m.status = "running"
Abort(m) == [m EXCEPT !.status = "abort"]

\* Ptr<T>::operator-> on an invalid pointer: throw std::runtime_error,
\* which nothing in the VM catches.
Error(m) == [m EXCEPT !.status = "error"]

\* detail::DataFrame::DataFrame and VM::push_data.
push_data(m, v) ==
    IF ~Running(m) THEN m
    ELSE [m EXCEPT !.data_stack = Append(@, [value |-> v, upvalue |-> 0, id |-> m.nextid]),
                   !.nextid = @ + 1]

\* The loop of VM::remove_data over the frames that move down by one.
RECURSIVE remove_shift(_, _)
remove_shift(us, moved) ==
    IF moved = <<>> THEN us
    ELSE LET u == Head(moved).upvalue
         IN remove_shift(IF u # 0 THEN [us EXCEPT ![u].idx = @ - 1] ELSE us,
                         Tail(moved))

\* A variant of close_upvalue that leaves the upvalue open.
close_upvalue_skip(us, fr) == us

\* if (data_stack[idx].upvalue) **data_stack[idx].upvalue = value; the
\* Upvalue changes from the index alternative to the value alternative.
close_upvalue(us, fr) ==
    IF fr.upvalue # 0
    THEN [us EXCEPT ![fr.upvalue].open = FALSE, ![fr.upvalue].value = fr.value]
    ELSE us

\* History: GetConst has loaded the value v.
note(m, v) ==
    IF Running(m) /\ v.t = "int" /\ v.n >= RegBase
    THEN [m EXCEPT !.log = Append(@, v.n)]
    ELSE m

\* A variant of remove_data that leaves the index of the upvalues of the
\* frames it moves as it was.
remove_data_unshifted(m, off) ==
    IF ~Running(m) THEN [vm |-> m, value |-> NilV]
    ELSE IF Len(m.data_stack) <= off THEN [vm |-> Abort(m), value |-> NilV]
    ELSE LET n == Len(m.data_stack)
             idx == n - off
             fr == m.data_stack[idx]
             moved == SubSeq(m.data_stack, idx + 1, n)
         IN [vm |-> [m EXCEPT !.data_stack = SubSeq(@, 1, idx - 1) \o moved,
                              !.ups = close_upvalue(m.ups, fr)],
             value |-> fr.value]

\* VM::remove_data: yields [vm, value].
remove_data(m, off) ==
    IF ~Running(m) THEN [vm |-> m, value |-> NilV]
    ELSE IF Len(m.data_stack) <= off THEN [vm |-> Abort(m), value |-> NilV]
    ELSE LET n == Len(m.data_stack)
             idx == n - off
             fr == m.data_stack[idx]
             us1 == close_upvalue(m.ups, fr)
             moved == SubSeq(m.data_stack, idx + 1, n)
         IN [vm |-> [m EXCEPT !.data_stack = SubSeq(@, 1, idx - 1) \o moved,
                              !.ups = remove_shift(us1, moved)],
             value |-> fr.value]

\* VM::pop_data.
pop_data(m) == remove_data(m, 0)

\* VM::nip_data.
nip_data(m) == remove_data(m, 1).vm

\* VM::peek_data; the caller has checked that the stack is not empty.
peek_data(m) == m.data_stack[Len(m.data_stack)].value

\* while (data_stack.size() > bottom) pop_data();
RECURSIVE pop_while(_, _)
pop_while(m, bottom) ==
    IF ~Running(m) \/ Len(m.data_stack) <= bottom THEN m
    ELSE pop_while(pop_data(m).vm, bottom)

\* call_stack.back().
TopFrame(m) == m.call_stack[Len(m.call_stack)]

\* A variant of throw_unhandled that keeps the data stack below the value.
throw_unhandled_keep(m) ==
    [m EXCEPT !.call_stack = <<>>, !.exception_thrown = TRUE]

\* VM::throw_ when the exception stack is empty.
throw_unhandled(m) ==
    LET r == pop_data(m)
        m1 == push_data(pop_while(r.vm, 0), r.value)
    IN IF ~Running(m1) THEN m1
       ELSE [m1 EXCEPT !.call_stack = <<>>, !.exception_thrown = TRUE]

\* A variant of throw_handled that keeps the call frames of the callees.
throw_handled_keep(m) ==
    LET handler == m.exception_stack[Len(m.exception_stack)]
        m0 == [m EXCEPT !.exception_stack = SubSeq(@, 1, Len(@) - 1)]
        r == pop_data(m0)
        m1 == push_data(pop_while(r.vm, handler.data_bottom), r.value)
    IN IF ~Running(m1) THEN m1
       ELSE [m1 EXCEPT !.call_stack[Len(m1.call_stack)].ip = handler.address]

\* A variant of throw_handled that leaves the data stack as it is above the
\* depth the handler recorded.
throw_handled_uncut(m) ==
    LET handler == m.exception_stack[Len(m.exception_stack)]
        m1 == [m EXCEPT !.exception_stack = SubSeq(@, 1, Len(@) - 1)]
    IN IF handler.call_bottom > Len(m1.call_stack) \/ handler.call_bottom = 0
       THEN Abort(m1)
       ELSE [m1 EXCEPT !.call_stack =
                [SubSeq(@, 1, handler.call_bottom)
                    EXCEPT ![handler.call_bottom].ip = handler.address]]

\* VM::throw_ when a handler is installed.
throw_handled(m) ==
    LET handler == m.exception_stack[Len(m.exception_stack)]
        m0 == [m EXCEPT !.exception_stack = SubSeq(@, 1, Len(@) - 1)]
        r == pop_data(m0)
        m1 == push_data(pop_while(r.vm, handler.data_bottom), r.value)
    IN IF ~Running(m1) THEN m1
       ELSE IF handler.call_bottom > Len(m1.call_stack) \/ handler.call_bottom = 0
       THEN Abort(m1)
       ELSE [m1 EXCEPT !.call_stack =
                [SubSeq(@, 1, handler.call_bottom)
                    EXCEPT ![handler.call_bottom].ip = handler.address]]

\* VM::throw_.
throw_(m) ==
    IF ~Running(m) THEN m
    ELSE IF Len(m.exception_stack) = 0 THEN throw_unhandled(m)
    ELSE throw_handled(m)

\* VM::throw_string.
throw_string(m, str) == throw_(push_data(m, StrV(str)))

\* VM::get_variable.
get_variable(m, arg) ==
    LET idx == TopFrame(m).data_bottom + arg
    IN IF idx >= Len(m.data_stack) THEN Abort(m)
       ELSE push_data(m, m.data_stack[idx + 1].value)

\* VM::set_variable: the value is popped, then the slot is written.
set_variable(m, arg) ==
    LET idx == TopFrame(m).data_bottom + arg
        r == pop_data(m)
    IN IF ~Running(r.vm) THEN r.vm
       ELSE IF idx >= Len(r.vm.data_stack) THEN Abort(r.vm)
       ELSE [r.vm EXCEPT !.data_stack[idx + 1].value = r.value]

\* VM::get_upvalue.
get_upvalue(m, arg) ==
    LET upvalues == m.fns[TopFrame(m).func].upvalues
    IN IF arg >= Len(upvalues) THEN Abort(m)
       ELSE LET u == m.ups[upvalues[arg + 1]]
            IN IF ~u.open THEN push_data(m, u.value)
               ELSE IF u.idx >= Len(m.data_stack) THEN Abort(m)
               ELSE push_data(m, m.data_stack[u.idx + 1].value)

\* VM::set_upvalue.
set_upvalue(m, arg) ==
    LET upvalues == m.fns[TopFrame(m).func].upvalues
    IN IF arg >= Len(upvalues) THEN Abort(m)
       ELSE LET r == pop_data(m)
                uid == upvalues[arg + 1]
            IN IF ~Running(r.vm) THEN r.vm
               ELSE LET u == r.vm.ups[uid]
                    IN IF ~u.open THEN [r.vm EXCEPT !.ups[uid].value = r.value]
                       ELSE IF u.idx >= Len(r.vm.data_stack) THEN Abort(r.vm)
                       ELSE [r.vm EXCEPT !.data_stack[u.idx + 1].value = r.value]

\* A variant of reset_upvalues that keeps the Function it finds.
reset_upvalues_shared(m) ==
    IF Len(m.data_stack) = 0 \/ peek_data(m).t # "fn" THEN Abort(m) ELSE m

\* VM::reset_upvalues; protos are shared, the new Function has no upvalues.
reset_upvalues(m) ==
    IF Len(m.data_stack) = 0 \/ peek_data(m).t # "fn" THEN Abort(m)
    ELSE LET r == pop_data(m)
             func2 == Len(r.vm.fns) + 1
         IN push_data([r.vm EXCEPT !.fns = Append(@, [proto |-> @[r.value.n].proto,
                                                        upvalues |-> <<>>])],
                      FnV(func2))

\* VM::make_upvalue.
make_upvalue(m, arg) ==
    IF Len(m.data_stack) = 0 \/ peek_data(m).t # "fn" THEN Abort(m)
    ELSE LET idx == TopFrame(m).data_bottom + arg
         IN IF idx >= Len(m.data_stack) THEN Abort(m)
            ELSE LET fr == m.data_stack[idx + 1]
                     fresh == fr.upvalue = 0
                     u == IF fresh THEN Len(m.ups) + 1 ELSE fr.upvalue
                     m1 == IF fresh
                           THEN [m EXCEPT !.ups = Append(@, [open |-> TRUE, idx |-> idx,
                                                             value |-> NilV,
                                                             origin |-> fr.id]),
                                          !.data_stack[idx + 1].upvalue = u]
                           ELSE m
                     func == peek_data(m1).n
                 IN [m1 EXCEPT !.fns[func].upvalues = Append(@, u)]

\* VM::copy_upvalue.
copy_upvalue(m, arg) ==
    IF Len(m.data_stack) = 0 \/ peek_data(m).t # "fn" THEN Abort(m)
    ELSE LET func1 == TopFrame(m).func
             func2 == peek_data(m).n
         IN IF arg >= Len(m.fns[func1].upvalues) THEN Abort(m)
            ELSE [m EXCEPT !.fns[func2].upvalues =
                                Append(@, m.fns[func1].upvalues[arg + 1])]

\* Object::get_prop for the receiver of GetProp.
get_prop(m, obj, name) ==
    IF obj.t = "obj" /\ name \in DOMAIN m.objs[obj.n].properties
    THEN m.objs[obj.n].properties[name]
    ELSE NoneV

\* Object::set_prop: properties.insert_or_assign(name, value).
set_prop(props, name, value) ==
    [x \in DOMAIN props \cup {name} |-> IF x = name THEN value ELSE props[x]]

\* VM::get_property.  The messages of the model have ' where those of the
\* VM have a grave accent.
get_property(m) ==
    IF Len(m.data_stack) = 0 \/ peek_data(m).t # "str" THEN Abort(m)
    ELSE LET r1 == pop_data(m)
             r2 == pop_data(r1.vm)
             name == r1.value.s
         IN IF ~Running(r2.vm) THEN r2.vm
            ELSE LET value == get_prop(r2.vm, r2.value, name)
                 IN IF value.t # "none" THEN push_data(r2.vm, value)
                    ELSE throw_string(r2.vm, "Property '" \o name \o "' not found")

\* VM::set_property.
set_property(m) ==
    LET r1 == pop_data(m)
    IN IF ~Running(r1.vm) THEN r1.vm
       ELSE IF Len(r1.vm.data_stack) = 0 \/ peek_data(r1.vm).t # "str" THEN Abort(r1.vm)
       ELSE LET r2 == pop_data(r1.vm)
                r3 == pop_data(r2.vm)
                name == r2.value.s
            IN IF ~Running(r3.vm) THEN r3.vm
               ELSE IF r3.value.t = "obj"
               THEN [r3.vm EXCEPT !.objs[r3.value.n].properties =
                                       set_prop(@, name, r1.value)]
               ELSE throw_string(r3.vm, "Can't set property on a primitive value")

\* x / y of int64_t for y # 0 and a quotient in range: truncated towards
\* zero.
cpp_div(x, y) ==
    LET q == (IF x < 0 THEN -x ELSE x) \div (IF y < 0 THEN -y ELSE y)
    IN IF (x < 0) # (y < 0) THEN -q ELSE q

\* Arity of the foreign functions the host provides (CppFunction::nargs).
CppNargs(name) ==
    CASE name \in {"+", "-", "==", "!="} -> 2
      [] OTHER -> 1

\* An Array with the single element i, and the closure that CppMethod
\* makes of Array.map for it (self is the array).
ArrV(i) == [t |-> "arr", n |-> i, s |-> ""]
MapV(i) == [t |-> "cpp", n |-> i, s |-> "Array.map"]

\* CppFunction::operator(): the foreign functions of the tests (make_unary,
\* make_binary, the methods of VmTest.Methods).  Yields [vm, ok, value];
\* ok = FALSE when the
\* function throws a Root<Value>.  std::get on the wrong alternative ends
\* the process.
Foreign(m, f, args) ==
    LET ints == \A i \in 1..Len(args) : args[i].t = "int"
        bad == [vm |-> Abort(m), ok |-> TRUE, value |-> NilV]
        ok(v) == [vm |-> m, ok |-> TRUE, value |-> v]
    IN CASE f.s = "+" -> IF ints THEN ok(IntV(args[1].n + args[2].n)) ELSE bad
         [] f.s = "-" -> IF ints THEN ok(IntV(args[1].n - args[2].n)) ELSE bad
         [] f.s = "==" -> IF ints THEN ok(BoolV(args[1].n = args[2].n)) ELSE bad
         [] f.s = "!=" -> IF ints THEN ok(BoolV(args[1].n # args[2].n)) ELSE bad
         [] f.s = "succ" -> IF ints THEN ok(IntV(args[1].n + 1)) ELSE bad
         [] f.s = "fail" -> [vm |-> m, ok |-> FALSE, value |-> args[1]]
         [] f.s = "derived_foo" -> ok(StrV("derived_foo"))
         \* CppMethod: binds self, yields the closure that takes the arguments
         [] f.s = "not_understood" -> ok([t |-> "cpp", n |-> args[1].n, s |-> "generated"])
         [] f.s = "generated" ->
               IF args[1].t = "str" THEN ok(StrV("generated_" \o args[1].s)) ELSE bad
         \* the closure of Int./ over self = f.n (binary_int_op)
         [] f.s = "Int./" ->
               IF ~ints THEN bad
               ELSE IF args[1].n = 0
               THEN [vm |-> m, ok |-> FALSE, value |-> StrV("Division by zero")]
               ELSE ok(IntV(cpp_div(f.n, args[1].n)))
         [] OTHER -> bad

\* VM::call_native.
call_native(m, func, n) ==
    IF ~Running(m) THEN m
    ELSE IF func \in m.invalid THEN Error(m)
    ELSE IF m.protos[m.fns[func].proto].nargs # n
    THEN throw_string(m, "Wrong number of arguments")
    ELSE [m EXCEPT !.call_stack = Append(@,
              [func |-> func, ip |-> 0,
               data_bottom |-> Len(m.data_stack) - n,
               exception_bottom |-> Len(m.exception_stack)])]

\* The loop of VM::call_foreign that pops the arguments, last one first.
RECURSIVE pop_args(_, _, _)
pop_args(m, n, args) ==
    IF n = 0 THEN [vm |-> m, args |-> args]
    ELSE LET r == pop_data(m)
         IN pop_args(r.vm, n - 1, <<r.value>> \o args)

RECURSIVE call_(_)

\* VM::call up to the call of run.
call(m, func, args) ==
    LET m0 == [m EXCEPT !.data_stack = <<>>, !.call_stack = <<>>,
                        !.exception_stack = <<>>, !.exception_thrown = FALSE]
        pushed[i \in 0..Len(args)] ==
            IF i = 0 THEN push_data(m0, func)
            ELSE push_data(pushed[i - 1], args[i])
    IN call_(push_data(pushed[Len(args)], IntV(Len(args))))

\* Array.map up to the call of run for the element of the array: the
\* function is entered with the stacks of the VM as they are.
Array_map(m, self, args) ==
    call([m EXCEPT !.foreign = Append(@, [self |-> self,
                                           data_stack |-> m.data_stack,
                                           call_stack |-> m.call_stack,
                                           exception_stack |-> m.exception_stack])],
         args[1], << IntV(self.n) >>)

\* VM::call_foreign.
call_foreign(m, func, n) ==
    IF ~Running(m) THEN m
    ELSE IF CppNargs(func.s) # n
    THEN throw_string(m, "Wrong number of arguments")
    ELSE LET a == pop_args(m, n, <<>>)
         IN IF ~Running(a.vm) THEN a.vm
            ELSE IF func.s = "Array.map" THEN Array_map(a.vm, func, a.args)
            ELSE LET r == Foreign(a.vm, func, a.args)
                 IN IF r.ok THEN push_data(r.vm, r.value)
                    ELSE throw_(push_data(r.vm, r.value))

\* VM::call_.
call_(m) ==
    LET r1 == pop_data(m)
    IN IF ~Running(r1.vm) THEN r1.vm
       ELSE IF r1.value.t # "int" \/ r1.value.n < 0 THEN Abort(r1.vm)
       ELSE LET n == r1.value.n
                r2 == remove_data(r1.vm, n)
                func == r2.value
            IN IF ~Running(r2.vm) THEN r2.vm
               ELSE CASE func.t = "fn" -> call_native(r2.vm, func.n, n)
                      [] func.t = "cpp" -> call_foreign(r2.vm, func, n)
                      [] OTHER -> throw_string(r2.vm, "Can't call a non-function")

\* A variant of send_ without the not_understood fallback.
send_no_fallback(m) ==
    IF Len(m.data_stack) = 0 \/ peek_data(m).t # "str" THEN Abort(m)
    ELSE LET r1 == pop_data(m)
             r2 == pop_data(r1.vm)
             msg == r1.value
             obj == r2.value
         IN IF ~Running(r2.vm) THEN r2.vm
            ELSE LET cls == class_of(r2.vm.objs, obj)
                     meth == lookup(r2.vm.methods, r2.vm.tokens, cls, msg.s)
                     m1 == [r2.vm EXCEPT !.methods = meth.methods]
                 IN IF meth.found
                    THEN call_(push_data(push_data(push_data(m1, meth.value), obj), IntV(1)))
                    ELSE throw_string(m1,
                           "Message '" \o msg.s \o "' could not be handled")

\* VM::send_; Klass::lookup updates the method tables.
send_(m) ==
    IF Len(m.data_stack) = 0 \/ peek_data(m).t # "str" THEN Abort(m)
    ELSE LET r1 == pop_data(m)
             r2 == pop_data(r1.vm)
             msg == r1.value
             obj == r2.value
         IN IF ~Running(r2.vm) THEN r2.vm
            ELSE LET cls == class_of(r2.vm.objs, obj)
                     meth == lookup(r2.vm.methods, r2.vm.tokens, cls, msg.s)
                     m1 == [r2.vm EXCEPT !.methods = meth.methods]
                 IN IF meth.found
                    THEN call_(push_data(push_data(push_data(m1, meth.value), obj), IntV(1)))
                    ELSE LET not_understood ==
                                 lookup(m1.methods, m1.tokens, cls, "not_understood")
                             m2 == [m1 EXCEPT !.methods = not_understood.methods]
                         IN IF not_understood.found
                            THEN call_native(
                                   push_data(push_data(push_data(m2,
                                       not_understood.value), obj), msg),
                                   m2.send_fallback_fn, 3)
                            ELSE throw_string(m2,
                                   "Message '" \o msg.s \o "' could not be handled")

\* A variant of return_ that leaves the locals of the frame on the stack.
return_keep(m) ==
    LET frame == TopFrame(m)
    IN IF Len(m.data_stack) <= frame.data_bottom THEN Abort(m)
       ELSE IF frame.exception_bottom > Len(m.exception_stack) THEN Abort(m)
       ELSE [m EXCEPT !.exception_stack = SubSeq(@, 1, frame.exception_bottom),
                      !.call_stack = SubSeq(@, 1, Len(@) - 1)]

\* A variant of return_ that leaves the handlers of the frame installed.
return_handlers(m) ==
    LET frame == TopFrame(m)
    IN IF Len(m.data_stack) <= frame.data_bottom THEN Abort(m)
       ELSE LET r == pop_data(m)
                m1 == push_data(pop_while(r.vm, frame.data_bottom), r.value)
            IN IF ~Running(m1) THEN m1
               ELSE [m1 EXCEPT !.call_stack = SubSeq(@, 1, Len(@) - 1)]

\* VM::return_.
return_(m) ==
    LET frame == TopFrame(m)
    IN IF Len(m.data_stack) <= frame.data_bottom THEN Abort(m)
       ELSE LET r == pop_data(m)
                m1 == push_data(pop_while(r.vm, frame.data_bottom), r.value)
            IN IF ~Running(m1) THEN m1
               ELSE IF frame.exception_bottom > Len(m1.exception_stack) THEN Abort(m1)
               ELSE [m1 EXCEPT !.exception_stack = SubSeq(@, 1, frame.exception_bottom),
                               !.call_stack = SubSeq(@, 1, Len(@) - 1)]

\* VM::jump.
jump(m, addr) == [m EXCEPT !.call_stack[Len(m.call_stack)].ip = addr]

\* A variant of jump_cond that takes a value that is not a Bool for false.
jump_cond_lenient(m, addr, cond) ==
    LET r == pop_data(m)
    IN IF ~Running(r.vm) THEN r.vm
       ELSE IF (r.value.t = "bool" /\ r.value.n = 1) = cond THEN jump(r.vm, addr)
       ELSE r.vm

\* VM::jump_cond.
jump_cond(m, addr, cond) ==
    LET r == pop_data(m)
    IN IF ~Running(r.vm) THEN r.vm
       ELSE IF r.value.t = "bool"
       THEN IF (r.value.n = 1) = cond THEN jump(r.vm, addr) ELSE r.vm
       ELSE throw_string(r.vm, "Expected bool in conditional")

\* VM::catch_.
catch_(m, addr) ==
    [m EXCEPT !.exception_stack = Append(@,
        [data_bottom |-> Len(m.data_stack),
         call_bottom |-> Len(m.call_stack),
         address |-> addr])]

\* VM::uncatch.
uncatch(m) ==
    IF Len(m.exception_stack) = 0 THEN Abort(m)
    ELSE [m EXCEPT !.exception_stack = SubSeq(@, 1, Len(@) - 1)]

\* The code of VM::VM for send_fallback_fn.
FallbackProto ==
    [nargs |-> 3,
     code |-> << Instruction("GetVar", 0), Instruction("GetVar", 1),
                 Instruction("GetConst", 0), Instr("Call"),
                 Instruction("GetVar", 2), Instruction("GetConst", 0),
                 Instr("Call"), Instr("Return") >>,
     constants |-> << IntV(1) >>]

\* base_foo of VmTest.Methods.
BaseFooProto ==
    [nargs |-> 1,
     code |-> << Instruction("GetConst", 0), Instr("Return") >>,
     constants |-> << StrV("base_foo") >>]

\* Function cells that exist before any program is loaded: cell 1 is
\* send_fallback_fn, cell 2 is base_foo.
SendFallbackFn == 1
BaseFoo == 2
BootProtos == << FallbackProto, BaseFooProto >>

\* Object cells of the tests: obj of VmTest.Properties, left and right of
\* VmTest.Methods.
ObjCell == 1
LeftCell == 2
RightCell == 3
BootObjects ==
    << [klass |-> ObjectCls, properties |-> <<>>],
       [klass |-> LeftCls, properties |-> <<>>],
       [klass |-> RightCls, properties |-> <<>>] >>

\* Messages sent in the VM model.
VmNames == {"foo", "bar", "not_understood"}

\* The class tables set up by VmTest.Methods: Base defines foo, Left
\* defines foo, Right defines not_understood.
BootMethods ==
    LET st0 == [methods |-> [k \in VmClasses |-> [x \in VmNames |-> NoEntry]],
                tokens |-> <<>>]
        st1 == define(st0, BaseCls, "foo", FnV(BaseFoo))
        st2 == define(st1, LeftCls, "foo", CppV("derived_foo"))
    IN define(st2, RightCls, "not_understood", CppV("not_understood"))

\* VmTest.Closures.
ProgClosures ==
    [main |-> 5,
     protos |-> BootProtos \o <<
        \* next: expects 2 upvalues (increment and accumulator)
        [nargs |-> 0,
         code |-> << Instruction("GetConst", 1), Instruction("GetUp", 0),
                     Instruction("GetUp", 1), Instruction("GetConst", 0),
                     Instr("Call"), Instruction("SetUp", 1),
                     Instruction("GetUp", 1), Instr("Return") >>,
         constants |-> << IntV(2), CppV("+") >>],
        \* make: expects 1 upvalue (increment)
        [nargs |-> 0,
         code |-> << Instruction("GetConst", 0), Instruction("GetConst", 1),
                     Instr("ResetUp"), Instruction("CopyUp", 0),
                     Instruction("MakeUp", 0), Instr("Return") >>,
         constants |-> << IntV(0), FnV(3) >>],
        \* main
        [nargs |-> 0,
         code |-> << Instruction("GetConst", 0), Instruction("GetConst", 2),
                     Instr("ResetUp"), Instruction("MakeUp", 0),
                     Instruction("GetConst", 1), Instr("Call"),
                     Instr("Dup"), Instruction("GetConst", 1), Instr("Call"),
                     Instr("Pop"),
                     Instr("Dup"), Instruction("GetConst", 1), Instr("Call"),
                     Instr("Return") >>,
         constants |-> << IntV(3), IntV(0), FnV(4) >>] >>]

\* VmTest.Exceptions.
ProgExceptions ==
    [main |-> 4,
     protos |-> BootProtos \o <<
        \* fail
        [nargs |-> 1, code |-> << Instr("Throw") >>, constants |-> <<>>],
        \* main
        [nargs |-> 0,
         code |-> << Instruction("GetConst", 0),
                     Instruction("Catch", 100), Instruction("Catch", 12),
                     Instruction("GetConst", 0), Instr("Dup"),
                     Instruction("GetConst", 1), Instruction("GetConst", 3),
                     Instruction("GetConst", 2), Instruction("GetConst", 1),
                     Instr("Call"),
                     Instruction("GetConst", 0), Instr("Return"),
                     Instruction("GetConst", 4), Instruction("GetVar", 1),
                     Instruction("GetConst", 1), Instr("Call"),
                     Instruction("SetVar", 1),
                     Instr("Uncatch"),
                     Instruction("GetConst", 3), Instruction("GetVar", 1),
                     Instruction("GetConst", 1), Instr("Call") >>,
         constants |-> << IntV(0), IntV(1), IntV(3), FnV(3), CppV("succ") >>] >>]

\* VmTest.Properties, with a Nop in front.
ProgProperties ==
    [main |-> 3,
     protos |-> BootProtos \o <<
        [nargs |-> 0,
         code |-> << Instr("Nop"), Instruction("GetConst", 0),
                     Instruction("GetVar", 0), Instruction("GetConst", 1),
                     Instruction("GetConst", 1), Instr("SetProp"),
                     Instruction("GetVar", 0), Instruction("GetConst", 2),
                     Instruction("GetConst", 2), Instr("SetProp"),
                     Instruction("GetVar", 0), Instruction("GetConst", 1),
                     Instruction("GetVar", 0), Instruction("GetConst", 2),
                     Instr("GetProp"), Instr("SetProp"),
                     Instruction("GetVar", 0), Instruction("GetConst", 1),
                     Instr("GetProp"), Instr("Return") >>,
         constants |-> << ObjV(ObjCell), StrV("foo"), StrV("bar") >>] >>]

\* main of VmTest.Methods for one input (receiver, message).
ProgMethods(obj, msg) ==
    [main |-> 3,
     protos |-> BootProtos \o <<
        [nargs |-> 0,
         code |-> << Instruction("GetConst", 0), Instruction("GetConst", 1),
                     Instr("Send"), Instr("Return") >>,
         constants |-> << obj, StrV(msg) >>] >>]

\* A function whose code ends without a Return.
ProgOffEnd ==
    [main |-> 3,
     protos |-> BootProtos \o <<
        [nargs |-> 0, code |-> << Instr("Nil") >>, constants |-> <<>>] >>]

\* Instruction sequences that raise a runtime script error, one for each
\* throw_string of the VM and one for a foreign function that throws, with
\* the constants they use (from index 1 on) and the value they throw.
ErrorKinds ==
    << [code |-> << Instruction("GetConst", 1), Instruction("GetConst", 2),
                    Instr("Call") >>,
        constants |-> << FnV(BaseFoo), IntV(0) >>,
        error |-> StrV("Wrong number of arguments")],
       [code |-> << Instruction("GetConst", 1), Instruction("GetConst", 2),
                    Instr("Call") >>,
        constants |-> << CppV("succ"), IntV(0) >>,
        error |-> StrV("Wrong number of arguments")],
       [code |-> << Instruction("GetConst", 1), Instruction("GetConst", 2),
                    Instr("Call") >>,
        constants |-> << IntV(5), IntV(0) >>,
        error |-> StrV("Can't call a non-function")],
       [code |-> << Instruction("GetConst", 1), Instruction("GetConst", 2),
                    Instr("Send") >>,
        constants |-> << ObjV(LeftCell), StrV("bar") >>,
        error |-> StrV("Message 'bar' could not be handled")],
       [code |-> << Instruction("GetConst", 1), Instruction("GetConst", 2),
                    Instr("GetProp") >>,
        constants |-> << ObjV(ObjCell), StrV("foo") >>,
        error |-> StrV("Property 'foo' not found")],
       [code |-> << Instruction("GetConst", 1), Instruction("GetConst", 2),
                    Instruction("GetConst", 1), Instr("SetProp") >>,
        constants |-> << IntV(5), StrV("foo") >>,
        error |-> StrV("Can't set property on a primitive value")],
       [code |-> << Instruction("GetConst", 1), Instruction("JumpIf", 0) >>,
        constants |-> << IntV(5) >>,
        error |-> StrV("Expected bool in conditional")],
       [code |-> << Instruction("GetConst", 1), Instruction("JumpUnless", 0) >>,
        constants |-> << NilV >>,
        error |-> StrV("Expected bool in conditional")],
       [code |-> << Instruction("GetConst", 1), Instruction("GetConst", 2),
                    Instruction("GetConst", 3), Instr("Call") >>,
        constants |-> << [t |-> "cpp", n |-> 6, s |-> "Int./"], IntV(0), IntV(1) >>,
        error |-> StrV("Division by zero")] >>

\* A program that raises the error of kind k in a callee of main, over
\* temporaries of both frames.  With handled, main has installed two
\* handlers; the inner one returns what it caught.
ProgError(k, handled) ==
    LET setup == IF handled THEN "Catch" ELSE "Nop"
    IN [main |-> 4,
        protos |-> BootProtos \o <<
           [nargs |-> 0,
            code |-> << Instruction("GetConst", 0) >> \o ErrorKinds[k].code
                        \o << Instr("Return") >>,
            constants |-> << IntV(7) >> \o ErrorKinds[k].constants],
           [nargs |-> 0,
            code |-> << Instruction("GetConst", 0),
                        Instruction(setup, 100), Instruction(setup, 8),
                        Instruction("GetConst", 0), Instruction("GetConst", 1),
                        Instruction("GetConst", 2), Instr("Call"),
                        Instr("Return"), Instr("Return") >>,
            constants |-> << IntV(8), FnV(3), IntV(0) >>] >>]

\* A program that moves slots with open upvalues down: the local 6 is
\* captured and the slot below it is nipped, an argument is captured and
\* the function slot below it is removed by the Call.  h sets its first
\* argument to 9 and calls its second one; the result is 9 + 6.
ProgShift ==
    [main |-> 5,
     protos |-> BootProtos \o <<
        \* g: returns its upvalue
        [nargs |-> 0,
         code |-> << Instruction("GetUp", 0), Instr("Return") >>,
         constants |-> <<>>],
        \* h(x, f)
        [nargs |-> 2,
         code |-> << Instruction("GetConst", 0), Instruction("SetVar", 0),
                     Instruction("GetVar", 1), Instruction("GetConst", 1),
                     Instr("Call"), Instr("Return") >>,
         constants |-> << IntV(9), IntV(0) >>],
        \* main
        [nargs |-> 0,
         code |-> << Instruction("GetConst", 0), Instruction("GetConst", 1),
                     Instruction("GetConst", 2), Instr("ResetUp"),
                     Instruction("MakeUp", 1), Instr("Pop"), Instr("Nip"),
                     Instruction("GetConst", 6), Instruction("GetConst", 3),
                     Instruction("GetVar", 0),
                     Instruction("GetConst", 2), Instr("ResetUp"),
                     Instruction("MakeUp", 3),
                     Instruction("GetConst", 4), Instr("Call"),
                     Instruction("GetConst", 2), Instr("ResetUp"),
                     Instruction("MakeUp", 0),
                     Instruction("GetConst", 5), Instr("Call"),
                     Instruction("GetConst", 4), Instr("Call"),
                     Instr("Return") >>,
         constants |-> << IntV(5), IntV(6), FnV(3), FnV(4), IntV(2), IntV(0),
                          CppV("+") >>] >>]

\* A program whose foreign function calls back into the VM: main keeps the
\* local 7, maps g over the array [5] and returns the local; g(x) is x + 1.
ProgReenter ==
    [main |-> 4,
     protos |-> BootProtos \o <<
        \* g(x)
        [nargs |-> 1,
         code |-> << Instruction("GetConst", 0), Instruction("GetVar", 0),
                     Instruction("GetConst", 1), Instruction("GetConst", 2),
                     Instr("Call"), Instr("Return") >>,
         constants |-> << CppV("+"), IntV(1), IntV(2) >>],
        \* main
        [nargs |-> 0,
         code |-> << Instruction("GetConst", 0), Instruction("GetConst", 1),
                     Instruction("GetConst", 2), Instruction("GetConst", 3),
                     Instr("Call"), Instr("Pop"), Instr("Return") >>,
         constants |-> << IntV(7), MapV(5), FnV(3), IntV(1) >>] >>]

\* The programs before the error programs.
Fixed ==
    << ProgClosures, ProgExceptions, ProgProperties,
       ProgMethods(ObjV(LeftCell), "foo"), ProgMethods(ObjV(RightCell), "foo"),
       ProgMethods(ObjV(LeftCell), "bar"), ProgMethods(ObjV(RightCell), "bar"),
       ProgMethods(IntV(7), "foo"), ProgOffEnd >>

\* The hand-assembled programs: the fixed ones, the error programs with
\* handlers, the error programs without.
Assembled ==
    Fixed \o [k \in 1..Len(ErrorKinds) |-> ProgError(k, TRUE)]
          \o [k \in 1..Len(ErrorKinds) |-> ProgError(k, FALSE)]

(***************************************************************************)
(* The compiler (compiler.cpp).  An expression is a record tagged by k     *)
(* with the fields of its struct in parser.h.  The compiler state c is     *)
(*   functions   the stack of FunctionEnv [proto, locals, blocks,          *)
(*               upvalues]; upvalues lists the names by upvalue index      *)
(*   heap        the FunctionProto of every Function allocated so far, by  *)
(*               cell id (the cells of BootProtos come first)              *)
(*   error       the message of the exception that ended the compilation,  *)
(*               "" while none was thrown                                  *)
(* A BlockEnv is [bottom, deferrals, definitions, declarations, kind,      *)
(* continue_jumps, break_jumps]; the two jump lists are those of LoopBlock.*)
(***************************************************************************)
StringExpr(value) == [k |-> "String", value |-> value]
IntExpr(value) == [k |-> "Int", value |-> value]
EmptyExpr == [k |-> "Empty"]
VariableExpr(name) == [k |-> "Variable", name |-> name]
LetExpr(name, value) == [k |-> "Let", name |-> name, value |-> value]
AssignExpr(name, value) == [k |-> "Assign", name |-> name, value |-> value]
GetPropExpr(obj, name) == [k |-> "GetProp", obj |-> obj, name |-> name]
SetPropExpr(obj, name, value) ==
    [k |-> "SetProp", obj |-> obj, name |-> name, value |-> value]
CallExpr(func, args) == [k |-> "Call", func |-> func, args |-> args]
SendExpr(obj, msg) == [k |-> "Send", obj |-> obj, msg |-> msg]
UnaryExpr(op, value) == [k |-> "Unary", op |-> op, value |-> value]
BinaryExpr(op, lhs, rhs) == [k |-> "Binary", op |-> op, lhs |-> lhs, rhs |-> rhs]
AndExpr(lhs, rhs) == [k |-> "And", lhs |-> lhs, rhs |-> rhs]
OrExpr(lhs, rhs) == [k |-> "Or", lhs |-> lhs, rhs |-> rhs]
BlockExpr(exprs) == [k |-> "Block", exprs |-> exprs]
\* branches is a sequence of [first, second]; otherwise is Some(body) or None.
IfExpr(branches, otherwise) ==
    [k |-> "If", branches |-> branches, otherwise |-> otherwise]
WhileExpr(cond, body) == [k |-> "While", cond |-> cond, body |-> body]
TryExpr(body, error, handler) ==
    [k |-> "Try", body |-> body, error |-> error, handler |-> handler]
DeferExpr(expr) == [k |-> "Defer", expr |-> expr]
LambdaExpr(args, body) == [k |-> "Lambda", args |-> args, body |-> body]
\* args is Some(names) or None.
MethodExpr(args, body) == [k |-> "Method", args |-> args, body |-> body]
BreakExpr == [k |-> "Break"]
ContinueExpr == [k |-> "Continue"]
\* value is Some(expr) or None.
ReturnExpr(value) == [k |-> "Return", value |-> value]
ThrowExpr(value) == [k |-> "Throw", value |-> value]

\* std::optional.
None == [has |-> FALSE]
Some(x) == [has |-> TRUE, val |-> x]

\* std::unordered_map: a function on the set of its keys.
EmptyMap == [x \in {} |-> 0]
MapPut(map, key, val) ==
    [x \in DOMAIN map \cup {key} |-> IF x = key THEN val ELSE map[x]]

\* detail::FunctionEnv{}.
NewFunctionEnv ==
    [proto |-> [nargs |-> 0, code |-> <<>>, constants |-> <<>>],
     locals |-> 0, blocks |-> <<>>, upvalues |-> <<>>]

\* throw std::runtime_error(msg), or a failed assert: the first one ends
\* the compilation.
Failed(c) == c.error # ""
fail(c, msg) == IF Failed(c) THEN c ELSE [c EXCEPT !.error = msg]

\* Index of the innermost function in c.functions.
Level(c) == Len(c.functions)

push_func(c) == [c EXCEPT !.functions = Append(@, NewFunctionEnv)]

pop_func(c) == [c EXCEPT !.functions = SubSeq(@, 1, Len(@) - 1)]

peek_func(c) == c.functions[Level(c)]

peek_proto(c) == peek_func(c).proto

push_block(c) ==
    [c EXCEPT !.functions[Level(c)].blocks =
        Append(@, [bottom |-> peek_func(c).locals,
                   deferrals |-> <<>>,
                   definitions |-> EmptyMap,
                   declarations |-> EmptyMap,
                   kind |-> "PlainBlock",
                   continue_jumps |-> <<>>,
                   break_jumps |-> <<>>])]

pop_block(c) ==
    LET blocks == peek_func(c).blocks
    IN [c EXCEPT !.functions[Level(c)].locals = blocks[Len(blocks)].bottom,
                 !.functions[Level(c)].blocks = SubSeq(blocks, 1, Len(blocks) - 1)]

\* Index of the innermost block in the innermost function's blocks.
Depth(c) == Len(peek_func(c).blocks)

peek_block(c) == peek_func(c).blocks[Depth(c)]

\* peek_block().kind = kind.
set_kind(c, kind) == [c EXCEPT !.functions[Level(c)].blocks[Depth(c)].kind = kind]

push_local(c) == [c EXCEPT !.functions[Level(c)].locals = @ + 1]

pop_local(c) == [c EXCEPT !.functions[Level(c)].locals = @ - 1]

get_address(c) == Len(peek_proto(c).code)

\* Compiler::compile_instr(Opcode).
compile_instr(c, op) ==
    [c EXCEPT !.functions[Level(c)].proto.code = Append(@, Instr(op))]

\* Compiler::compile_instr(Opcode, uint32_t).
compile_instr_arg(c, op, arg) ==
    [c EXCEPT !.functions[Level(c)].proto.code = Append(@, Instruction(op, arg))]

\* peek_proto().code[addr].arg = get_address() for a jump emitted at addr.
set_jump(c, addr) ==
    IF Failed(c) THEN c
    ELSE [c EXCEPT !.functions[Level(c)].proto.code[addr + 1].arg =
                       get_address(c) % ArgMod]

\* for (auto jump : jumps) peek_proto().code[jump].arg = get_address().
RECURSIVE set_jumps(_, _)
set_jumps(c, jumps) ==
    IF Failed(c) \/ Len(jumps) = 0 THEN c
    ELSE set_jumps(set_jump(c, Head(jumps)), Tail(jumps))

\* n times compile_instr(op), the loops of compile_leave_pop and _nip.
RECURSIVE compile_instrs(_, _, _)
compile_instrs(c, op, n) ==
    IF Failed(c) \/ n <= 0 THEN c ELSE compile_instrs(compile_instr(c, op), op, n - 1)

compile_pop(c) == pop_local(compile_instr(c, "Pop"))

compile_nip(c) == pop_local(compile_instr(c, "Nip"))

compile_constant(c, value) ==
    LET c1 == compile_instr_arg(c, "GetConst", Len(peek_proto(c).constants))
    IN push_local([c1 EXCEPT !.functions[Level(c)].proto.constants =
                                 Append(@, value)])

compile_string(c, str) == compile_constant(c, StrV(str))

compile_int(c, n) == compile_constant(c, IntV(n))

compile_nil(c) == push_local(compile_instr(c, "Nil"))

\* The loop of lookup_local over the blocks, innermost first; yields an
\* optional index.
RECURSIVE find_definition(_, _, _)
find_definition(blocks, i, name) ==
    IF i = 0 THEN None
    ELSE IF name \in DOMAIN blocks[i].definitions
    THEN Some(blocks[i].definitions[name])
    ELSE find_definition(blocks, i - 1, name)

lookup_local(c, name) ==
    find_definition(peek_func(c).blocks, Depth(c), name)

\* The loop of lookup_upvalue_origin.
\* A variant of find_origin that knows only the names already defined.
RECURSIVE find_origin_defined(_, _, _)
find_origin_defined(blocks, i, name) ==
    IF i = 0 THEN None
    ELSE IF name \in DOMAIN blocks[i].definitions
    THEN Some(blocks[i].definitions[name])
    ELSE find_origin_defined(blocks, i - 1, name)

RECURSIVE find_origin(_, _, _)
find_origin(blocks, i, name) ==
    IF i = 0 THEN None
    ELSE IF name \in DOMAIN blocks[i].definitions
    THEN Some(blocks[i].definitions[name])
    ELSE IF name \in DOMAIN blocks[i].declarations
            /\ Len(blocks[i].declarations[name]) > 0
    THEN Some(Head(blocks[i].declarations[name]))
    ELSE find_origin(blocks, i - 1, name)

lookup_upvalue_origin(c, level, name) ==
    find_origin(c.functions[level].blocks, Len(c.functions[level].blocks), name)

\* find_opt(current.upvalues, name).
find_upvalue(upvalues, name) ==
    IF \E i \in 1..Len(upvalues) : upvalues[i] = name
    THEN Some((CHOOSE i \in 1..Len(upvalues) : upvalues[i] = name) - 1)
    ELSE None

\* outer.proto.code.push_back(instr); current.upvalues.emplace(name, size).
capture(c, level, op, idx, name) ==
    [c EXCEPT !.functions[level - 1].proto.code = Append(@, Instruction(op, idx)),
              !.functions[level].upvalues = Append(@, name)]

\* Compiler::lookup_upvalue_rec; level counts from 1.  Yields [c, idx]:
\* the compiler state and the optional index.
RECURSIVE lookup_upvalue_rec(_, _, _)
lookup_upvalue_rec(c, level, name) ==
    LET known == find_upvalue(c.functions[level].upvalues, name).has
        c1 == IF ~known /\ level > 1
              THEN LET idx == lookup_upvalue_origin(c, level - 1, name)
                   IN IF idx.has THEN capture(c, level, "MakeUp", idx.val, name)
                      ELSE LET r == lookup_upvalue_rec(c, level - 1, name)
                           IN IF r.idx.has
                              THEN capture(r.c, level, "CopyUp", r.idx.val, name)
                              ELSE r.c
              ELSE c
    IN [c |-> c1, idx |-> find_upvalue(c1.functions[level].upvalues, name)]

lookup_upvalue(c, name) == lookup_upvalue_rec(c, Level(c), name)

\* Backticks of the message are written as apostrophes.
compile_variable(c, expr) ==
    LET local == lookup_local(c, expr.name)
        upvalue == lookup_upvalue(c, expr.name)
    IN IF local.has
       THEN push_local(compile_instr_arg(c, "GetVar", local.val))
       ELSE IF upvalue.idx.has
       THEN push_local(compile_instr_arg(upvalue.c, "GetUp", upvalue.idx.val))
       ELSE fail(upvalue.c, "Variable '" \o expr.name \o "' not found")

define_variable(c, name) ==
    push_local([c EXCEPT !.functions[Level(c)].blocks[Depth(c)].definitions =
                             MapPut(@, name, peek_func(c).locals)])

(***************************************************************************)
(* compile_leave and its callers.                                          *)
(***************************************************************************)
\* The switch of compile_leave: stack indices move by idx_diff, addresses
\* by addr_diff; instr.arg keeps its 27 bits.
relocate(instr, idx_diff, addr_diff) ==
    IF instr.op \in {"GetVar", "SetVar", "MakeUp"}
    THEN Instruction(instr.op, instr.arg + idx_diff)
    ELSE IF instr.op \in {"Jump", "JumpIf", "JumpUnless", "Catch"}
    THEN Instruction(instr.op, instr.arg + addr_diff)
    ELSE instr

\* for (auto instr : defer->code) compile_instr(instr.op, instr.arg).
RECURSIVE replay_code(_, _, _, _)
replay_code(c, code, idx_diff, addr_diff) ==
    IF Failed(c) \/ Len(code) = 0 THEN c
    ELSE LET instr == relocate(Head(code), idx_diff, addr_diff)
         IN replay_code(compile_instr_arg(c, instr.op, instr.arg),
                        Tail(code), idx_diff, addr_diff)

\* A variant of replay that leaves the handler of the deferral installed.
replay_handled(c, defer) ==
    LET idx_diff == peek_func(c).locals - defer.bottom
        addr_diff == get_address(c) - defer.address
    IN replay_code(c, defer.code, idx_diff, addr_diff)

\* The body of the loop of compile_leave over the deferrals of a block.
replay(c, defer) ==
    LET c1 == compile_instr(c, "Uncatch")
        idx_diff == peek_func(c1).locals - defer.bottom
        addr_diff == get_address(c1) - defer.address
    IN replay_code(c1, defer.code, idx_diff, addr_diff)

\* Deferrals i, i - 1, ..., 1 replayed in this order.
RECURSIVE replay_down(_, _, _)
replay_down(c, deferrals, i) ==
    IF Failed(c) \/ i = 0 THEN c
    ELSE replay_down(replay(c, deferrals[i]), deferrals, i - 1)

\* Deferrals i, i + 1, ... replayed in this order.
RECURSIVE replay_up(_, _, _)
replay_up(c, deferrals, i) ==
    IF Failed(c) \/ i > Len(deferrals) THEN c
    ELSE replay_up(replay(c, deferrals[i]), deferrals, i + 1)

\* A variant of leave_block that replays the deferrals oldest first.
leave_block_fifo(c, block) ==
    LET c1 == replay_up(c, block.deferrals, 1)
    IN IF block.kind = "TryBlock" THEN compile_instr(c1, "Uncatch") ELSE c1

\* A variant of leave_block that removes the handlers of all deferrals of
\* the block before it replays the first one.
RECURSIVE replay_bare(_, _, _)
replay_bare(c, deferrals, i) ==
    IF Failed(c) \/ i = 0 THEN c
    ELSE LET d == deferrals[i]
             idx_diff == peek_func(c).locals - d.bottom
             addr_diff == get_address(c) - d.address
         IN replay_bare(replay_code(c, d.code, idx_diff, addr_diff),
                        deferrals, i - 1)

leave_block_uncatch_first(c, block) ==
    LET c0 == compile_instrs(c, "Uncatch", Len(block.deferrals))
        c1 == replay_bare(c0, block.deferrals, Len(block.deferrals))
    IN IF block.kind = "TryBlock" THEN compile_instr(c1, "Uncatch") ELSE c1

\* A variant of leave_block that leaves the handler of a try installed.
leave_block_keep_try(c, block) ==
    replay_down(c, block.deferrals, Len(block.deferrals))

\* The body of the loop of compile_leave over the blocks: the deferrals
\* from the youngest to the oldest, then the handler of a try.
leave_block(c, block) ==
    LET c1 == replay_down(c, block.deferrals, Len(block.deferrals))
    IN IF block.kind = "TryBlock" THEN compile_instr(c1, "Uncatch") ELSE c1

\* Blocks i, i - 1, ... down to last, innermost first.
RECURSIVE leave_blocks(_, _, _)
leave_blocks(c, i, last) ==
    IF Failed(c) \/ i < last THEN c
    ELSE leave_blocks(leave_block(c, peek_func(c).blocks[i]), i - 1, last)

compile_leave(c, nblocks) ==
    leave_blocks(c, Depth(c), Depth(c) - nblocks + 1)

\* The end of compile_leave_pop: what the blocks left on the stack is popped.
pop_to_bottom(c, nblocks) ==
    LET bottom == peek_func(c).blocks[Depth(c) - nblocks + 1].bottom
    IN IF nblocks = 0 \/ Failed(c) THEN c
       ELSE IF peek_func(c).locals < bottom THEN fail(c, "Local stack underflow")
       ELSE compile_instrs(c, "Pop", peek_func(c).locals - bottom)

\* A variant of compile_leave_pop that leaves the values of the blocks on
\* the stack.
compile_leave_keep(c, nblocks) == compile_leave(c, nblocks)

compile_leave_pop(c, nblocks) == pop_to_bottom(compile_leave(c, nblocks), nblocks)

\* The end of compile_leave_nip: the top of the stack is kept.
nip_to_bottom(c, nblocks) ==
    LET bottom == peek_func(c).blocks[Depth(c) - nblocks + 1].bottom
    IN IF nblocks = 0 \/ Failed(c) THEN c
       ELSE IF peek_func(c).locals <= bottom THEN fail(c, "Local stack underflow")
       ELSE compile_instrs(c, "Nip", peek_func(c).locals - bottom - 1)

compile_leave_nip(c, nblocks) == nip_to_bottom(compile_leave(c, nblocks), nblocks)

(***************************************************************************)
(* Expressions.                                                            *)
(***************************************************************************)
RECURSIVE compile_expr(_, _)
RECURSIVE declare_expr(_, _)

RECURSIVE declare_expr_chain(_, _)
declare_expr_chain(c, exprs) ==
    IF Failed(c) \/ Len(exprs) = 0 THEN c
    ELSE declare_expr_chain(declare_expr(c, Head(exprs)), Tail(exprs))

\* The loop of compile_expr_chain.
RECURSIVE compile_rest(_, _)
compile_rest(c, exprs) ==
    IF Failed(c) \/ Len(exprs) = 0 THEN c
    ELSE compile_rest(compile_expr(compile_pop(c), Head(exprs)), Tail(exprs))

compile_expr_chain(c, exprs) ==
    IF Len(exprs) = 0 THEN compile_nil(c)
    ELSE compile_rest(compile_expr(c, Head(exprs)), Tail(exprs))

\* The loop of compile_call over the arguments.
RECURSIVE compile_args(_, _)
compile_args(c, args) ==
    IF Failed(c) \/ Len(args) = 0 THEN c
    ELSE compile_args(compile_expr(c, Head(args)), Tail(args))

\* n times pop_local().
RECURSIVE pop_locals(_, _)
pop_locals(c, n) == IF Failed(c) \/ n = 0 THEN c ELSE pop_locals(pop_local(c), n - 1)

\* A variant of compile_let that defines the name before it compiles the
\* initializer.
compile_let_early(c, expr) ==
    LET name == expr.name
        declarations == peek_block(c).declarations
    IN IF Failed(c) THEN c
       ELSE IF name \notin DOMAIN declarations \/ Len(declarations[name]) = 0
       THEN fail(c, "Variable was not predeclared")
       ELSE LET idx == Head(declarations[name])
                c0 == [c EXCEPT
                         !.functions[Level(c)].blocks[Depth(c)].declarations[name] =
                             Tail(@),
                         !.functions[Level(c)].blocks[Depth(c)].definitions =
                             MapPut(@, name, idx)]
                c1 == compile_expr(c0, expr.value)
            IN IF Failed(c1) THEN c1
               ELSE compile_instr_arg(compile_instr(c1, "Dup"), "SetVar", idx)

compile_let(c, expr) ==
    LET c1 == compile_expr(c, expr.value)
        name == expr.name
        declarations == peek_block(c1).declarations
    IN IF Failed(c1) THEN c1
       ELSE IF name \notin DOMAIN declarations \/ Len(declarations[name]) = 0
       THEN fail(c1, "Variable was not predeclared")
       ELSE LET idx == Head(declarations[name])
                c2 == [c1 EXCEPT
                         !.functions[Level(c1)].blocks[Depth(c1)].declarations[name] =
                             Tail(@),
                         !.functions[Level(c1)].blocks[Depth(c1)].definitions =
                             MapPut(@, name, idx)]
            IN compile_instr_arg(compile_instr(c2, "Dup"), "SetVar", idx)

compile_assign(c, expr) ==
    LET c0 == compile_expr(c, expr.value)
    IN IF Failed(c0) THEN c0
       ELSE LET c1 == compile_instr(c0, "Dup")
                local == lookup_local(c1, expr.name)
                upvalue == lookup_upvalue(c1, expr.name)
            IN IF local.has THEN compile_instr_arg(c1, "SetVar", local.val)
               ELSE IF upvalue.idx.has
               THEN compile_instr_arg(upvalue.c, "SetUp", upvalue.idx.val)
               ELSE fail(upvalue.c, "Variable '" \o expr.name \o "' not found")

compile_get_prop(c, expr) ==
    LET c1 == compile_expr(c, expr.obj)
    IN IF Failed(c1) THEN c1
       ELSE pop_local(compile_instr(compile_string(c1, expr.name), "GetProp"))

compile_set_prop(c, expr) ==
    LET c0 == compile_expr(c, expr.obj)
    IN IF Failed(c0) THEN c0
       ELSE LET c1 == compile_instr(c0, "Dup")
                c2 == compile_expr(compile_string(c1, expr.name), expr.value)
            IN IF Failed(c2) THEN c2
               ELSE pop_local(pop_local(compile_instr(c2, "SetProp")))

compile_call(c, expr) ==
    LET c1 == compile_args(compile_expr(c, expr.func), expr.args)
    IN IF Failed(c1) THEN c1
       ELSE LET c2 == compile_instr(compile_int(c1, Len(expr.args)), "Call")
            IN pop_local(pop_locals(c2, Len(expr.args)))

compile_send(c, expr) ==
    LET c1 == compile_expr(c, expr.obj)
    IN IF Failed(c1) THEN c1
       ELSE pop_local(compile_instr(compile_string(c1, expr.msg), "Send"))

compile_unary(c, expr) == compile_send(c, SendExpr(expr.value, expr.op))

compile_binary(c, expr) ==
    compile_call(c, CallExpr(SendExpr(expr.lhs, expr.op), <<expr.rhs>>))

\* The end of a block whose value stays on the stack: compile_leave_nip(1),
\* pop_block(), push_local().
compile_block_end(c) ==
    IF Failed(c) THEN c ELSE push_local(pop_block(compile_leave_nip(c, 1)))

\* The rhs of a short-circuit operator after the jump.
compile_rhs(c, rhs) ==
    compile_block_end(
        compile_expr(declare_expr(push_block(compile_pop(c)), rhs), rhs))

\* compile_and and compile_or after the lhs: op is the jump that skips the
\* rhs.
compile_short_circuit(c, op, rhs) ==
    IF Failed(c) THEN c
    ELSE LET c1 == compile_instr(c, "Dup")
         IN set_jump(compile_rhs(compile_instr_arg(c1, op, -1), rhs),
                     get_address(c1))

\* A variant of compile_and that drops the lhs and evaluates the rhs
\* whatever the lhs was.
compile_and_eager(c, expr) ==
    IF Failed(compile_expr(c, expr.lhs)) THEN compile_expr(c, expr.lhs)
    ELSE compile_block_end(
             compile_expr(
                 declare_expr(push_block(compile_pop(compile_expr(c, expr.lhs))),
                              expr.rhs),
                 expr.rhs))

compile_and(c, expr) ==
    compile_short_circuit(compile_expr(c, expr.lhs), "JumpUnless", expr.rhs)

compile_or(c, expr) ==
    compile_short_circuit(compile_expr(c, expr.lhs), "JumpIf", expr.rhs)

compile_block(c, exprs) ==
    IF Len(exprs) = 0 THEN compile_nil(c)
    ELSE compile_block_end(
             compile_expr_chain(declare_expr_chain(push_block(c), exprs), exprs))

\* The loop of compile_if over the branches; yields [c, finish_jumps].
RECURSIVE compile_branches(_, _, _)

\* A branch after its body: c is the state after compile_leave_nip(1).
compile_branch_end(c, next_jump, branches, finish_jumps) ==
    LET c1 == set_jump(pop_local(compile_instr_arg(c, "Jump", -1)), next_jump)
    IN compile_branches(pop_block(compile_leave_pop(c1, 1)), Tail(branches),
                        Append(finish_jumps, get_address(c)))

\* A branch after its condition.
compile_branch_body(c, branches, finish_jumps) ==
    IF Failed(c) THEN [c |-> c, finish_jumps |-> finish_jumps]
    ELSE compile_branch_end(
             compile_leave_nip(
                 compile_block(pop_local(compile_instr_arg(c, "JumpUnless", -1)),
                               Head(branches).second),
                 1),
             get_address(c), branches, finish_jumps)

compile_branches(c, branches, finish_jumps) ==
    IF Failed(c) \/ Len(branches) = 0 THEN [c |-> c, finish_jumps |-> finish_jumps]
    ELSE compile_branch_body(
             compile_expr(declare_expr(push_block(c), Head(branches).first),
                          Head(branches).first),
             branches, finish_jumps)

\* compile_if after the branches: r is [c, finish_jumps].
compile_otherwise(r, otherwise) ==
    IF Failed(r.c) THEN r.c
    ELSE set_jumps(IF otherwise.has THEN compile_block(r.c, otherwise.val)
                   ELSE compile_nil(r.c),
                   r.finish_jumps)

compile_if(c, expr) ==
    compile_otherwise(compile_branches(c, expr.branches, <<>>), expr.otherwise)

\* compile_while after the jump back to the condition.
compile_while_exit(c, finish_jump) ==
    compile_nil(pop_block(compile_leave_pop(
        set_jumps(set_jump(c, finish_jump), peek_block(c).break_jumps), 1)))

\* compile_while after the body.
compile_while_end(c, start_addr, finish_jump) ==
    IF Failed(c) THEN c
    ELSE LET c1 == compile_pop(c)
             c2 == set_jumps(c1, peek_block(c1).continue_jumps)
         IN compile_while_exit(
                compile_instr_arg(compile_leave_pop(c2, 1), "Jump", start_addr),
                finish_jump)

\* compile_while after the condition.
compile_while_body(c, start_addr, body) ==
    IF Failed(c) THEN c
    ELSE compile_while_end(
             compile_block(
                 set_kind(pop_local(compile_instr_arg(c, "JumpUnless", -1)),
                          "LoopBlock"),
                 body),
             start_addr, get_address(c))

compile_while(c, expr) ==
    compile_while_body(
        compile_expr(declare_expr(push_block(c), expr.cond), expr.cond),
        get_address(c), expr.body)

\* compile_try after the handler.
compile_try_end(c, finish_jump) ==
    IF Failed(c) THEN c
    ELSE push_local(set_jump(pop_block(compile_nip(c)), finish_jump))

\* compile_try after its block was left.
compile_try_handler(c, handler_jump, expr) ==
    compile_try_end(
        compile_block(
            define_variable(
                push_block(set_jump(compile_instr_arg(c, "Jump", -1), handler_jump)),
                expr.error),
            expr.handler),
        get_address(c))

\* compile_try after the body.
compile_try_leave(c, handler_jump, expr) ==
    IF Failed(c) THEN c
    ELSE compile_try_handler(pop_block(compile_leave_nip(c, 1)), handler_jump, expr)

compile_try(c, expr) ==
    compile_try_leave(
        compile_expr_chain(
            declare_expr_chain(
                set_kind(push_block(compile_instr_arg(c, "Catch", -1)), "TryBlock"),
                expr.body),
            expr.body),
        get_address(c), expr)

\* compile_defer after its block was left: the code from address on is the
\* deferral.
compile_defer_end(c, skip_jump, address, bottom) ==
    IF Failed(c) THEN c
    ELSE LET defer == [bottom |-> bottom, address |-> address,
                       code |-> SubSeq(peek_proto(c).code, address + 1,
                                       Len(peek_proto(c).code))]
             c1 == set_jump(pop_local(compile_instr(c, "Throw")), skip_jump)
         IN compile_nil([c1 EXCEPT
                !.functions[Level(c1)].blocks[Depth(c1)].deferrals =
                    Append(@, defer)])

\* compile_defer after the body.
compile_defer_leave(c, skip_jump, address, bottom) ==
    IF Failed(c) THEN c
    ELSE compile_defer_end(pop_block(compile_leave_pop(c, 1)),
                           skip_jump, address, bottom)

compile_defer(c, expr) ==
    LET c1 == compile_instr_arg(c, "Catch", get_address(c) + 2)
        c2 == push_local(compile_instr_arg(c1, "Jump", -1))
    IN compile_defer_leave(
           compile_expr(declare_expr(set_kind(push_block(c2), "DeferBlock"),
                                     expr.expr),
                        expr.expr),
           get_address(c1), get_address(c2), peek_func(c2).locals)

\* for (auto& arg : expr.args) define_variable(arg).
RECURSIVE define_variables(_, _)
define_variables(c, names) ==
    IF Failed(c) \/ Len(names) = 0 THEN c
    ELSE define_variables(define_variable(c, Head(names)), Tail(names))

\* ctx.alloc<Function> of ctx.alloc(std::move(peek_proto())): the new cell
\* gets the next id.
alloc_function(c) == [c EXCEPT !.heap = Append(@, peek_proto(c))]

\* compile_lambda after the body.
compile_lambda_end(c) ==
    IF Failed(c) THEN c
    ELSE LET c1 == alloc_function(compile_instr(compile_leave(c, 1), "Return"))
             c2 == pop_func(c1)
         IN [c2 EXCEPT !.functions[Level(c2)].proto.constants =
                           Append(@, FnV(Len(c1.heap)))]

compile_lambda(c, expr) ==
    LET c1 == compile_instr_arg(c, "GetConst", Len(peek_proto(c).constants))
        c2 == push_func(push_local(compile_instr(c1, "ResetUp")))
        c3 == [c2 EXCEPT !.functions[Level(c2)].proto.nargs = Len(expr.args)]
        c4 == push_block(define_variables(push_block(c3), expr.args))
    IN compile_lambda_end(
           compile_expr_chain(declare_expr_chain(c4, expr.body), expr.body))

compile_method(c, expr) ==
    IF expr.args.has
    THEN compile_lambda(c, LambdaExpr(<<"self">>,
                                     <<LambdaExpr(expr.args.val, expr.body)>>))
    ELSE compile_lambda(c, LambdaExpr(<<"self">>, expr.body))

\* The loop of compile_loop_control: the index of the loop block, or 0
\* when a DeferBlock or the end of the blocks comes first.
\* A variant of find_loop that looks for the loop beyond a defer body.
RECURSIVE find_loop_beyond(_, _)
find_loop_beyond(blocks, i) ==
    IF i = 0 THEN 0
    ELSE IF blocks[i].kind = "LoopBlock" THEN i
    ELSE find_loop_beyond(blocks, i - 1)

\* The loop of compile_loop_control over the blocks, innermost first: the
\* index of the loop block, 0 when the search ends at a defer body or at the
\* function.
RECURSIVE find_loop(_, _)
find_loop(blocks, i) ==
    IF i = 0 \/ blocks[i].kind = "DeferBlock" THEN 0
    ELSE IF blocks[i].kind = "LoopBlock" THEN i
    ELSE find_loop(blocks, i - 1)

compile_loop_control(c, cont) ==
    LET loop_block == find_loop(peek_func(c).blocks, Depth(c))
        nblocks == Depth(c) - loop_block
        c1 == compile_leave_pop(c, nblocks)
        c2 == IF cont
              THEN [c1 EXCEPT
                      !.functions[Level(c1)].blocks[loop_block].continue_jumps =
                          Append(@, get_address(c1))]
              ELSE [c1 EXCEPT
                      !.functions[Level(c1)].blocks[loop_block].break_jumps =
                          Append(@, get_address(c1))]
    IN IF loop_block = 0
       THEN fail(c, "Break and continue can only be used inside of a loop")
       ELSE IF Failed(c1) THEN c1
       ELSE push_local(compile_instr_arg(c2, "Jump", -1))

compile_break(c, expr) == compile_loop_control(c, FALSE)

compile_continue(c, expr) == compile_loop_control(c, TRUE)

compile_return(c, expr) ==
    LET blocks == peek_func(c).blocks
        c1 == IF expr.value.has THEN compile_expr(c, expr.value.val)
              ELSE compile_nil(c)
    IN IF \E i \in 1..Len(blocks) : blocks[i].kind = "DeferBlock"
       THEN fail(c, "Can't return from a defer")
       ELSE IF Failed(c1) THEN c1
       ELSE compile_instr(compile_leave(c1, Depth(c1)), "Return")

compile_throw(c, expr) == compile_instr(compile_expr(c, expr.value), "Throw")

\* Once an exception was thrown nothing more is compiled.
compile_expr(c, expr) ==
    IF Failed(c) THEN c
    ELSE CASE expr.k = "String" -> compile_string(c, expr.value)
           [] expr.k = "Int" -> compile_int(c, expr.value)
           [] expr.k = "Empty" -> compile_nil(c)
           [] expr.k = "Variable" -> compile_variable(c, expr)
           [] expr.k = "Let" -> compile_let(c, expr)
           [] expr.k = "Assign" -> compile_assign(c, expr)
           [] expr.k = "GetProp" -> compile_get_prop(c, expr)
           [] expr.k = "SetProp" -> compile_set_prop(c, expr)
           [] expr.k = "Call" -> compile_call(c, expr)
           [] expr.k = "Send" -> compile_send(c, expr)
           [] expr.k = "Unary" -> compile_unary(c, expr)
           [] expr.k = "Binary" -> compile_binary(c, expr)
           [] expr.k = "And" -> compile_and(c, expr)
           [] expr.k = "Or" -> compile_or(c, expr)
           [] expr.k = "Block" -> compile_block(c, expr.exprs)
           [] expr.k = "If" -> compile_if(c, expr)
           [] expr.k = "While" -> compile_while(c, expr)
           [] expr.k = "Try" -> compile_try(c, expr)
           [] expr.k = "Defer" -> compile_defer(c, expr)
           [] expr.k = "Lambda" -> compile_lambda(c, expr)
           [] expr.k = "Method" -> compile_method(c, expr)
           [] expr.k = "Break" -> compile_break(c, expr)
           [] expr.k = "Continue" -> compile_continue(c, expr)
           [] expr.k = "Return" -> compile_return(c, expr)
           [] expr.k = "Throw" -> compile_throw(c, expr)

\* The LetExpr case of declare_expr.
declare_let(c, expr) ==
    LET c1 == declare_expr(c, expr.value)
        name == expr.name
        old == IF name \in DOMAIN peek_block(c1).declarations
               THEN peek_block(c1).declarations[name] ELSE <<>>
    IN IF Failed(c1) THEN c1
       ELSE compile_nil([c1 EXCEPT
               !.functions[Level(c1)].blocks[Depth(c1)].declarations =
                   MapPut(@, name, Append(old, peek_func(c1).locals))])

declare_expr(c, expr) ==
    IF Failed(c) THEN c
    ELSE CASE expr.k = "Let" -> declare_let(c, expr)
           [] expr.k = "Assign" -> declare_expr(c, expr.value)
           [] expr.k = "GetProp" -> declare_expr(c, expr.obj)
           [] expr.k = "SetProp" ->
                  declare_expr(declare_expr(c, expr.obj), expr.value)
           [] expr.k = "Call" ->
                  declare_expr_chain(declare_expr(c, expr.func), expr.args)
           [] expr.k = "Send" -> declare_expr(c, expr.obj)
           [] expr.k = "Unary" -> declare_expr(c, expr.value)
           [] expr.k = "Binary" ->
                  declare_expr(declare_expr(c, expr.lhs), expr.rhs)
           [] expr.k = "And" -> declare_expr(c, expr.lhs)
           [] expr.k = "Or" -> declare_expr(c, expr.lhs)
           [] expr.k = "Return" ->
                  IF expr.value.has THEN declare_expr(c, expr.value.val) ELSE c
           [] expr.k = "Throw" -> declare_expr(c, expr.value)
           [] OTHER -> c

\* ctx.builtins as CompilerTest sets it up (init_builtins), keys in order.
Builtins ==
    << <<"!=", CppV("!=")>>, <<"+", CppV("+")>>, <<"-", CppV("-")>>,
       <<"==", CppV("==")>>, <<"false", BoolV(FALSE)>>, <<"true", BoolV(TRUE)>> >>

\* The loop of compile_main over ctx.builtins.
RECURSIVE define_builtins(_, _)
define_builtins(c, builtins) ==
    IF Failed(c) \/ Len(builtins) = 0 THEN c
    ELSE LET x == Head(builtins)
             c1 == pop_local(compile_constant(c, x[2]))
         IN define_builtins(define_variable(c1, x[1]), Tail(builtins))

\* compile_main after the body.
compile_main_end(c) ==
    IF Failed(c) THEN c
    ELSE pop_func(alloc_function(compile_instr(compile_leave(c, 1), "Return")))

\* Compiler::Compiler and Compiler::compile_main: the final compiler state;
\* main is the last cell of heap.
compile_main(body) ==
    compile_main_end(
        compile_expr_chain(
            declare_expr_chain(
                define_builtins(
                    push_block(push_func(
                        [functions |-> <<>>, heap |-> BootProtos, error |-> ""])),
                    Builtins),
                body),
            body))

\* The program in the heap after a compilation that left the state c.
compiled(c) == [main |-> Len(c.heap), protos |-> c.heap]

\* Compiler::compile: the program handed to VM::run.
compile(body) == compiled(compile_main(body))

(***************************************************************************)
(* Source programs.  Integer literals from RegBase on are markers: loading *)
(* one is recorded in log.  Reg(k) stands right before the k-th defer,     *)
(* Run(k) is the body of the k-th defer, Chk(d) stands where exactly d     *)
(* registered defers have not run yet, Thr(k) throws a marked value.       *)
(***************************************************************************)
Reg(k) == IntExpr(RegBase + k)
Run(k) == IntExpr(RunBase + k)
Chk(d) == IntExpr(ChkBase + d)
Thr(k) == ThrowExpr(IntExpr(ThrowBase + k))
\* A statement placed where the function has d values on its stack: the
\* builtins (in main), the variables in scope and the temporaries.
At(d) == IntExpr(DepthBase + d)

\* k; defer k'
Defer(k) == << Reg(k), DeferExpr(Run(k)) >>
\* k; defer { k'; throw k'' }
DeferThrowing(k) == << Reg(k), DeferExpr(BlockExpr(<< Run(k), Thr(k) >>)) >>

Var(name) == VariableExpr(name)
Call0(name) == CallExpr(VariableExpr(name), <<>>)
Call2(name, a, b) == CallExpr(VariableExpr(name), << a, b >>)
Fn0(body) == LambdaExpr(<<>>, body)
If1(cond, body) == IfExpr(<< [first |-> cond, second |-> body] >>, None)

\* CompilerTest.ClosureCounter.
SrcClosureCounter ==
    << LetExpr("init", IntExpr(0)),
       LetExpr("inc", IntExpr(1)),
       LetExpr("main", Fn0(<<
           LetExpr("make", Fn0(<<
               LetExpr("x", Var("init")),
               Fn0(<< AssignExpr("x", Call2("+", Var("x"), Var("inc"))),
                      ReturnExpr(Some(Var("x"))) >>) >>)),
           LetExpr("counter", Call0("make")),
           Call0("counter"), Call0("counter"), Call0("counter") >>)),
       Call0("main") >>

\* CompilerTest.BreakFromTryBlock.
SrcBreakFromTryBlock ==
    << WhileExpr(Var("true"),
           << TryExpr(<< BreakExpr >>, "x", << ThrowExpr(IntExpr(2)) >>) >>),
       ThrowExpr(IntExpr(1)) >>

\* CompilerTest.ShortCircuitLogic.
SrcShortCircuitLogic ==
    << OrExpr(Var("true"), ThrowExpr(IntExpr(1))),
       AndExpr(Var("false"), ThrowExpr(IntExpr(2))),
       OrExpr(Var("false"), AndExpr(Var("true"), Var("true"))) >>

\* Two closures over the same local x of make; a third closure over a
\* local of main that is assigned while main is still running.
\*   let g = nil;
\*   let make = fn() {
\*       let x = 0;
\*       g = fn() { x };
\*       let inc = fn() { x = x + 1 };
\*       inc(); x = x + 10; g();
\*       { let y = 7; inc }
\*   };
\*   let inc = make(); inc(); g()
SrcSharedCell ==
    << LetExpr("g", EmptyExpr),
       LetExpr("make", Fn0(<<
           LetExpr("x", IntExpr(0)),
           AssignExpr("g", Fn0(<< Var("x") >>)),
           LetExpr("inc", Fn0(<< AssignExpr("x", Call2("+", Var("x"), IntExpr(1))) >>)),
           Call0("inc"),
           AssignExpr("x", Call2("+", Var("x"), IntExpr(10))),
           Call0("g"),
           BlockExpr(<< LetExpr("y", IntExpr(7)), Var("inc") >>) >>)),
       LetExpr("inc", Call0("make")),
       Call0("inc"),
       Call0("g") >>

\* Blocks left by falling off their end.
SrcDeferFall ==
    << BlockExpr(Defer(1) \o Defer(2)
                 \o << BlockExpr(Defer(3) \o << Chk(3) >>), Chk(2) >>),
       Chk(0) >>

\* break out of nested blocks of a loop body.
SrcDeferBreak ==
    << WhileExpr(Var("true"),
           Defer(1) \o << BlockExpr(Defer(2)
               \o << If1(Var("true"), Defer(3) \o << Chk(3), BreakExpr >>) >>) >>),
       Chk(0) >>

\* continue from a nested block; the loop runs twice.
SrcDeferContinue ==
    << LetExpr("i", IntExpr(0)),
       WhileExpr(Call2("!=", Var("i"), IntExpr(2)),
           << AssignExpr("i", Call2("+", Var("i"), IntExpr(1))) >>
           \o Defer(1)
           \o << BlockExpr(Defer(2) \o << Chk(2), ContinueExpr >>) >>),
       Chk(0) >>

\* return from nested blocks inside a loop of a function.
SrcDeferReturn ==
    << LetExpr("f", Fn0(Defer(1) \o << WhileExpr(Var("true"),
           Defer(2) \o << BlockExpr(Defer(3)
               \o << Chk(3), ReturnExpr(Some(IntExpr(5))) >>) >>) >>)),
       Call0("f"),
       Chk(0) >>

\* A throw that leaves two blocks and reaches a try handler.
SrcDeferThrow ==
    << TryExpr(Defer(1) \o << BlockExpr(Defer(2) \o << ThrowExpr(IntExpr(9)) >>) >>,
               "e", << Chk(0), Var("e") >>) >>

\* A throw that leaves a callee and a block of the caller.
SrcDeferThrowCall ==
    << LetExpr("f", Fn0(Defer(2) \o << Chk(2), ThrowExpr(IntExpr(9)) >>)),
       TryExpr(Defer(1) \o << Call0("f") >>, "e", << Chk(0), Var("e") >>) >>

\* A throw that reaches the host.
SrcDeferThrowHost ==
    Defer(1) \o << BlockExpr(Defer(2) \o << ThrowExpr(IntExpr(9)) >>) >>

\* A defer body that assigns a local of its own function, replayed at a
\* break.
SrcDeferLocal ==
    << LetExpr("x", IntExpr(0)),
       WhileExpr(Var("true"),
           << Reg(1),
              DeferExpr(BlockExpr(<< Run(1), AssignExpr("x", IntExpr(1)) >>)),
              BreakExpr >>),
       Var("x") >>

\* A defer body that throws while replayed at the end of a block
\* (CompilerTest.DeferThrow has this shape).
SrcThrowingFall ==
    << TryExpr(Defer(1) \o << BlockExpr(Defer(2) \o DeferThrowing(3)
                                          \o << IntExpr(1) >>) >>,
               "e", << Chk(0), Var("e") >>) >>

\* A defer body that throws while replayed at a break.
SrcThrowingBreak ==
    << TryExpr(<< WhileExpr(Var("true"),
                      Defer(1) \o DeferThrowing(2) \o << BreakExpr >>) >>,
               "e", << Chk(0), Var("e") >>) >>

\* A defer body that throws while replayed at a continue.
SrcThrowingContinue ==
    << TryExpr(<< WhileExpr(Var("true"),
                      Defer(1) \o << BlockExpr(DeferThrowing(2)
                                               \o << ContinueExpr >>) >>) >>,
               "e", << Chk(0), Var("e") >>) >>

\* A defer body that throws while replayed at a return; the host gets it.
SrcThrowingReturn ==
    << LetExpr("f", Fn0(Defer(1) \o DeferThrowing(2)
                        \o << ReturnExpr(Some(IntExpr(5))) >>)),
       Call0("f") >>

\* A defer body that throws while it runs as exception handler.
SrcThrowingHandler ==
    Defer(1) \o DeferThrowing(2) \o << ThrowExpr(IntExpr(9)) >>

\* The nearest of two try handlers gets the value.
SrcThrowingNested ==
    << TryExpr(<< TryExpr(Defer(1) \o << BlockExpr(DeferThrowing(2)
                                                    \o << IntExpr(1) >>) >>,
                          "e", << Chk(0), Var("e") >>) >>,
               "e", << IntExpr(0) >>) >>

\* continue out of a try body; the loop runs once.
\*   let n = 0;
\*   while n == 0 { n = 1; try { continue } catch x { throw 2 } };
\*   throw 1
SrcContinueFromTry ==
    << LetExpr("n", IntExpr(0)),
       WhileExpr(Call2("==", Var("n"), IntExpr(0)),
           << AssignExpr("n", IntExpr(1)),
              TryExpr(<< ContinueExpr >>, "x", << ThrowExpr(IntExpr(2)) >>) >>),
       ThrowExpr(IntExpr(1)) >>

\* return out of a try body.
\*   let f = fn() { try { return 5 } catch x { throw 2 } };
\*   f(); throw 1
SrcReturnFromTry ==
    << LetExpr("f", Fn0(<< TryExpr(<< ReturnExpr(Some(IntExpr(5))) >>, "x",
                                   << ThrowExpr(IntExpr(2)) >>) >>)),
       Call0("f"),
       ThrowExpr(IntExpr(1)) >>

\* break out of two try bodies, over a local of the outer one.
\*   while true { try { let a = 0; try { break } catch x { throw 2 } }
\*                catch y { throw 3 } };
\*   throw 1
SrcBreakFromNestedTry ==
    << WhileExpr(Var("true"),
           << TryExpr(<< LetExpr("a", IntExpr(0)),
                         TryExpr(<< BreakExpr >>, "x", << ThrowExpr(IntExpr(2)) >>) >>,
                      "y", << ThrowExpr(IntExpr(3)) >>) >>),
       ThrowExpr(IntExpr(1)) >>

\* The source programs; the i-th one is program Len(Assembled) + i.
\* CompilerTest.RecursiveFunctions.
SrcRecursiveFunctions ==
    << LetExpr("main", Fn0(<< CallExpr(Var("ping"), << IntExpr(10) >>) >>)),
       LetExpr("ping", LambdaExpr(<< "n" >>, <<
           If1(Call2("==", Var("n"), IntExpr(0)),
               << ReturnExpr(Some(IntExpr(0))) >>),
           LetExpr("n", Call2("-", Var("n"), IntExpr(1))),
           LetExpr("y", CallExpr(Var("pong"), << Var("n") >>)),
           ReturnExpr(Some(Call2("+", Var("y"), Var("y")))) >>)),
       LetExpr("pong", LambdaExpr(<< "n" >>, <<
           IfExpr(<< [first |-> Call2("==", IntExpr(0), Var("n")),
                      second |-> << IntExpr(1) >>] >>,
                  Some(<< Call2("+",
                              CallExpr(Var("ping"),
                                       << Call2("-", Var("n"), IntExpr(1)) >>),
                              IntExpr(1)) >>)) >>)),
       Call0("main") >>

\* A name of each kind read three functions down: x is defined in main and
\* again in f, y has its let later in main, z has its let later in a block
\* of f.
\*   let x = 1;
\*   let f = fn() { let x = 2; { let g = fn() { fn() { x + y + z } };
\*                               let z = 90; g } };
\*   let y = 40;
\*   f()()()
SrcNestedUpvalues ==
    << LetExpr("x", IntExpr(1)),
       LetExpr("f", Fn0(<<
           LetExpr("x", IntExpr(2)),
           BlockExpr(<<
               LetExpr("g", Fn0(<< Fn0(<<
                   Call2("+", Call2("+", Var("x"), Var("y")), Var("z")) >>) >>)),
               LetExpr("z", IntExpr(90)),
               Var("g") >>) >>)),
       LetExpr("y", IntExpr(40)),
       CallExpr(CallExpr(Call0("f"), <<>>), <<>>) >>

\* CompilerTest.BreakContinue.
SrcBreakContinue ==
    << LetExpr("x", IntExpr(0)),
       LetExpr("i", IntExpr(0)),
       WhileExpr(Var("true"), <<
           LetExpr("j", IntExpr(0)),
           WhileExpr(Var("true"), <<
               If1(Call2("==", Var("j"), IntExpr(3)), << BreakExpr >>),
               AssignExpr("j", Call2("+", Var("j"), IntExpr(1))),
               AssignExpr("x", Call2("+", Var("x"), IntExpr(1))) >>),
           IfExpr(<< [first |-> Call2("==", Var("i"), IntExpr(10)),
                      second |-> << BreakExpr >>] >>,
                  Some(<< AssignExpr("i", Call2("+", Var("i"), IntExpr(1))),
                          ContinueExpr >>)),
           ReturnExpr(Some(IntExpr(0))) >>),
       ReturnExpr(Some(Var("x"))) >>

\* continue from nested blocks with locals, continue and break with the
\* callee and the arguments of unfinished calls on the stack.
\*   let x = 0; let r = 0;
\*   while { At(8); x != 3 } {
\*       let a = 10;
\*       x = x + 1;
\*       { let b = 20;
\*         if x == 1 { continue };
\*         r = r + (a + (b + if x == 2 { continue } else { 3 })) };
\*       if x == 3 { r + (1 + break) };
\*       r = 99
\*   };
\*   At(8); r
SrcLoopDepth ==
    << LetExpr("x", IntExpr(0)),
       LetExpr("r", IntExpr(0)),
       WhileExpr(BlockExpr(<< At(8), Call2("!=", Var("x"), IntExpr(3)) >>), <<
           LetExpr("a", IntExpr(10)),
           AssignExpr("x", Call2("+", Var("x"), IntExpr(1))),
           BlockExpr(<<
               LetExpr("b", IntExpr(20)),
               If1(Call2("==", Var("x"), IntExpr(1)), << ContinueExpr >>),
               AssignExpr("r", Call2("+", Var("r"),
                   Call2("+", Var("a"),
                       Call2("+", Var("b"),
                           IfExpr(<< [first |-> Call2("==", Var("x"), IntExpr(2)),
                                      second |-> << ContinueExpr >>] >>,
                                  Some(<< IntExpr(3) >>)))))) >>),
           If1(Call2("==", Var("x"), IntExpr(3)),
               << Call2("+", Var("r"), Call2("+", IntExpr(1), BreakExpr)) >>),
           AssignExpr("r", IntExpr(99)) >>),
       At(8),
       Var("r") >>

\* A loop whose condition declares a variable, left by continue.
\*   let x = 0;
\*   while let a = x != 2 { x = x + 1; continue };
\*   At(7); x
SrcCondLetContinue ==
    << LetExpr("x", IntExpr(0)),
       WhileExpr(LetExpr("a", Call2("!=", Var("x"), IntExpr(2))),
           << AssignExpr("x", Call2("+", Var("x"), IntExpr(1))), ContinueExpr >>),
       At(7),
       Var("x") >>

\* A loop whose condition declares a variable, left by break.
\*   let x = 5;
\*   while let a = true { break };
\*   At(7); x
SrcCondLetBreak ==
    << LetExpr("x", IntExpr(5)),
       WhileExpr(LetExpr("a", Var("true")), << BreakExpr >>),
       At(7),
       Var("x") >>

\* One short-circuit operator: lhs is the variable true or false, the rhs
\* declares a variable of its own and is 7.
\*   let r = lhs op (let v = { At(8); 7 });
\*   At(7); r
SrcShortCircuit(op, lhs) ==
    LET rhs == LetExpr("v", BlockExpr(<< At(8), IntExpr(7) >>))
    IN << LetExpr("r", IF op = "and" THEN AndExpr(Var(lhs), rhs)
                                     ELSE OrExpr(Var(lhs), rhs)),
          At(7),
          Var("r") >>

\* CompilerTest.TryCatch.
SrcTryCatch ==
    << TryExpr(<<
           TryExpr(<< LetExpr("x", IntExpr(2)),
                      ThrowExpr(Var("x")),
                      AssignExpr("x", IntExpr(0)),
                      ReturnExpr(Some(Var("x"))) >>,
                   "x",
                   << LetExpr("y", Call2("+", Var("x"), IntExpr(1))),
                      Var("y") >>) >>,
           "_",
           << IntExpr(0) >>) >>

\* A lambda that is evaluated twice; each closure has its own x.
\*   let a = 1;
\*   let make = fn() { let x = a; fn() { x = x + a; x } };
\*   let c1 = make(); let c2 = make();
\*   c1(); c1(); c1() + c2()
SrcFreshClosures ==
    << LetExpr("a", IntExpr(1)),
       LetExpr("make", Fn0(<<
           LetExpr("x", Var("a")),
           Fn0(<< AssignExpr("x", Call2("+", Var("x"), Var("a"))),
                  Var("x") >>) >>)),
       LetExpr("c1", Call0("make")),
       LetExpr("c2", Call0("make")),
       Call0("c1"), Call0("c1"),
       Call2("+", Call0("c1"), Call0("c2")) >>

\* CompilerTest.NestedBlocks.
SrcNestedBlocks ==
    << BlockExpr(<<
           LetExpr("x", IntExpr(2)),
           LetExpr("y", IntExpr(10)),
           LetExpr("z", BlockExpr(<<
               LetExpr("x", IntExpr(5)),
               BlockExpr(<<
                   AssignExpr("x", BlockExpr(<<
                       AssignExpr("y", Call2("+", Var("y"), IntExpr(10))),
                       Var("y") >>)) >>),
               Var("x") >>)),
           AssignExpr("x", Call2("+", Var("x"), Call2("+", Var("y"), Var("z")))),
           Var("x") >>) >>

\* Blocks that declare locals while the callee and an argument of a call
\* are on the stack, and a let among the arguments.
\*   let r = 1 + ({ let a = 2; At(10); a } + { let b = 3; let c = (let d = 4); At(13); b + c + d });
\*   At(7); r + (let u = 30) + u
SrcArgLocals ==
    << LetExpr("r", Call2("+", IntExpr(1),
           Call2("+",
               BlockExpr(<< LetExpr("a", IntExpr(2)), At(12), Var("a") >>),
               BlockExpr(<< LetExpr("b", IntExpr(3)),
                            LetExpr("c", LetExpr("d", IntExpr(4))),
                            At(15),
                            Call2("+", Var("b"), Call2("+", Var("c"), Var("d"))) >>)))),
       At(8),
       Call2("+", Call2("+", Var("r"), LetExpr("u", IntExpr(30))), Var("u")) >>

\* A block that declares a local as the value of a property assignment.
\*   7.p = { let a = 5; a }
SrcPropLocal ==
    << SetPropExpr(IntExpr(7), "p",
           BlockExpr(<< LetExpr("a", IntExpr(5)), Var("a") >>)) >>

\* A break taken while the receiver and the name of a property assignment
\* are on the stack.
\*   while true { 7.p = break };
\*   At(6); 1
SrcPropBreak ==
    << WhileExpr(Var("true"), << SetPropExpr(IntExpr(7), "p", BreakExpr) >>),
       At(6),
       IntExpr(1) >>

\* Several let of one name in a block, in a nested block and over a
\* parameter.
\*   let x = 1; let f = fn() { x }; let a = x;
\*   let x = x + 10; let b = x;
\*   let r = { let c = x; let x = x + 20; x = x + 1; c + x };
\*   let g = fn(x) { let y = x; let x = x + 1; y + x };
\*   f() + a + b + r + x + g(5)
SrcShadowing ==
    << LetExpr("x", IntExpr(1)),
       LetExpr("f", Fn0(<< Var("x") >>)),
       LetExpr("a", Var("x")),
       LetExpr("x", Call2("+", Var("x"), IntExpr(10))),
       LetExpr("b", Var("x")),
       LetExpr("r", BlockExpr(<<
           LetExpr("c", Var("x")),
           LetExpr("x", Call2("+", Var("x"), IntExpr(20))),
           AssignExpr("x", Call2("+", Var("x"), IntExpr(1))),
           Call2("+", Var("c"), Var("x")) >>)),
       LetExpr("g", LambdaExpr(<< "x" >>, <<
           LetExpr("y", Var("x")),
           LetExpr("x", Call2("+", Var("x"), IntExpr(1))),
           Call2("+", Var("y"), Var("x")) >>)),
       Call2("+", Call0("f"),
           Call2("+", Var("a"),
               Call2("+", Var("b"),
                   Call2("+", Var("r"),
                       Call2("+", Var("x"),
                           CallExpr(Var("g"), << IntExpr(5) >>)))))) >>

\* A reference in a lambda that stands before the let of an inner block.
\*   let x = 1;
\*   { let f = fn() { x }; let y = x; let x = 20; f() + y }
SrcShadowLambda ==
    << LetExpr("x", IntExpr(1)),
       BlockExpr(<<
           LetExpr("f", Fn0(<< Var("x") >>)),
           LetExpr("y", Var("x")),
           LetExpr("x", IntExpr(20)),
           Call2("+", Call0("f"), Var("y")) >>) >>

\* The defer body of SrcDeferLocal run as exception handler.
\*   let x = 0; try { while true { defer { x = 1 }; throw 9 } } catch e { 0 }; x
SrcDeferLocalThrow ==
    << LetExpr("x", IntExpr(0)),
       TryExpr(<< WhileExpr(Var("true"),
                      << Reg(1),
                         DeferExpr(BlockExpr(<< Run(1), AssignExpr("x", IntExpr(1)) >>)),
                         ThrowExpr(IntExpr(9)) >>) >>,
               "e", << IntExpr(0) >>),
       Var("x") >>

\* A defer body with a jump that assigns a local of its own function,
\* replayed at the end of its block.
\*   let x = 0; { defer { if true { x = x + 1 } }; 5 }; x
SrcDeferLocalFall ==
    << LetExpr("x", IntExpr(0)),
       BlockExpr(<< Reg(1),
                    DeferExpr(BlockExpr(<< Run(1),
                        If1(Var("true"),
                            << AssignExpr("x", Call2("+", Var("x"), IntExpr(1))) >>) >>)),
                    IntExpr(5) >>),
       Var("x") >>

\* Exceptions after a replay and a normal exit after a handler ran.
\*   try { 1; defer 1'; { 2; defer 2'; 0 }; throw 9 } catch e { chk 0 };
\*   { 3; defer 3'; try { 4; defer 4'; throw 8 } catch e { 0 }; chk 1 };
\*   chk 0
SrcDeferOnce ==
    << TryExpr(Defer(1) \o << BlockExpr(Defer(2) \o << IntExpr(0) >>),
                               ThrowExpr(IntExpr(9)) >>,
               "e", << Chk(0) >>),
       BlockExpr(Defer(3)
                 \o << TryExpr(Defer(4) \o << ThrowExpr(IntExpr(8)) >>,
                                "e", << IntExpr(0) >>),
                        Chk(1) >>),
       Chk(0) >>

Sources ==
    << SrcClosureCounter, SrcBreakFromTryBlock, SrcShortCircuitLogic,
       SrcSharedCell,
       SrcDeferFall, SrcDeferBreak, SrcDeferContinue, SrcDeferReturn,
       SrcDeferThrow, SrcDeferThrowCall, SrcDeferThrowHost, SrcDeferLocal,
       SrcThrowingFall, SrcThrowingBreak, SrcThrowingContinue,
       SrcThrowingReturn, SrcThrowingHandler, SrcThrowingNested,
       SrcContinueFromTry, SrcReturnFromTry, SrcBreakFromNestedTry,
       SrcRecursiveFunctions, SrcNestedUpvalues,
       SrcBreakContinue, SrcLoopDepth, SrcCondLetContinue, SrcCondLetBreak,
       SrcShortCircuit("and", "true"), SrcShortCircuit("and", "false"),
       SrcShortCircuit("or", "true"), SrcShortCircuit("or", "false"),
       SrcTryCatch, SrcFreshClosures,
       SrcNestedBlocks, SrcArgLocals, SrcPropLocal, SrcPropBreak,
       SrcShadowing, SrcShadowLambda,
       SrcDeferLocalThrow, SrcDeferLocalFall, SrcDeferOnce >>

\* Every program the VM model runs: the assembled ones, then what the
\* compiler makes of the source programs; the program after the last one
\* is the one with the foreign function that calls back.
NPrograms == Len(Assembled) + Len(Sources) + 1
Program(p) ==
    IF p <= Len(Assembled) THEN Assembled[p]
    ELSE IF p <= Len(Assembled) + Len(Sources)
    THEN compile(Sources[p - Len(Assembled)])
    ELSE IF p = NPrograms THEN ProgShift
    ELSE ProgReenter

\* The VM right after VM::VM, with program p loaded in the heap;
\* exception_thrown is not initialised by the constructor.
NewVM(p) ==
    /\ prog = p
    /\ \E pr \in {Program(p)} :
          /\ protos = pr.protos
          /\ main = pr.main
          /\ fns = [f \in 1..Len(pr.protos) |-> [proto |-> f, upvalues |-> <<>>]]
    /\ status = "idle"
    /\ data_stack = <<>>
    /\ call_stack = <<>>
    /\ exception_stack = <<>>
    /\ exception_thrown \in BOOLEAN
    /\ ups = <<>>
    /\ objs = BootObjects
    /\ log = <<>>
    /\ nextid = 1
    /\ result = NilV
    /\ invalid = {}
    /\ foreign = <<>>

\* The VM while another subsystem is exercised.
IdleVM ==
    /\ prog = 0
    /\ protos = <<>>
    /\ main = 0
    /\ status = "idle"
    /\ data_stack = <<>>
    /\ call_stack = <<>>
    /\ exception_stack = <<>>
    /\ exception_thrown = FALSE
    /\ fns = <<>>
    /\ ups = <<>>
    /\ objs = <<>>
    /\ log = <<>>
    /\ nextid = 1
    /\ result = NilV
    /\ invalid = {}
    /\ foreign = <<>>

\* The host has dereferenced nothing.
NoDeref == [ptr |-> 0, outcome |-> "none", payload |-> <<>>]
NoUnit == [ctx |-> <<>>, leaf |-> "", state |-> "none", error |-> ""]
NoCalc == [op |-> "", x |-> 0, y |-> 0, kind |-> "none", n |-> 0, msg |-> ""]
\* The fields of a Context before its constructor: null Ptrs.
NoClasses ==
    [object_cls |-> 0, class_cls |-> 0, nil_cls |-> 0, bool_cls |-> 0,
     int_cls |-> 0, string_cls |-> 0, array_cls |-> 0, function_cls |-> 0]
NoContext == [cells |-> <<>>, cls |-> NoClasses, stage |-> "none"]
NoText == [s |-> <<>>, signed |-> FALSE, quoted |-> <<>>,
           back |-> [has |-> FALSE], stage |-> "none"]
\* Addresses a Root object can have in the model of the root list.
MaxRootObjs == 3

\* The memory at an address where no Root was constructed yet.
NoRoot == [alive |-> FALSE, prev |-> 0, next |-> 0, inner |-> 0]

\* Collector::Collector: root_head(nullptr).
NoRootList == [head |-> 0, nodes |-> [r \in 1..MaxRootObjs |-> NoRoot]]

IdleHost ==
    /\ deref = NoDeref /\ unit = NoUnit /\ calc = NoCalc /\ context = NoContext
    /\ text = NoText
    /\ rootlist = NoRootList

\* The collector while another subsystem is exercised: nothing allocated.
IdleGC ==
    /\ boxes = <<>>
    /\ box_head = <<>>
    /\ root_head = <<>>
    /\ hptr = 0
    /\ allocations = 0
    /\ treshold = MinTreshold
    /\ collected = FALSE

(***************************************************************************)
(* Host operations on the collector.                                       *)
(***************************************************************************)

InitGC ==
    /\ boxes = <<>>
    /\ box_head = <<>>
    /\ root_head = <<>>
    /\ hptr = 0
    /\ allocations \in {0, BootCells}
    /\ treshold = MinTreshold
    /\ collected = FALSE
    /\ IdleKlass
    /\ IdleVM
    /\ IdleHost

\* gc.alloc<Node>(): Collector::alloc with a payload constructor that does
\* not allocate; the result is a new Root holding the only Ptr.
Alloc ==
    /\ Len(boxes) < MaxCells
    /\ Len(root_head) < MaxRoots
    /\ LET g == alloc_check(GcState, root_head, treshold)
           c == Len(boxes) + 1
       IN /\ boxes' = Append(g.bx, [BoxBase EXCEPT !.ptrs = 1])
          /\ box_head' = <<c>> \o g.head
          /\ allocations' = g.allocations + 1
          /\ treshold' = g.treshold
          /\ collected' = g.ran
          /\ root_head' = <<c>> \o root_head
    /\ UNCHANGED hptr
    /\ deref' = NoDeref
    /\ UNCHANGED nongc

\* ctx.alloc<Klass>(ctx, base): the payload constructor itself allocates
\* (Klass::Klass(Context&, const Ptr<Klass>&) allocates the metaclass and
\* keeps the Ptr).  The outer Box is constructed with the list head read
\* before the constructor ran, and is then made the head.
AllocNested ==
    /\ Len(boxes) + 1 < MaxCells
    /\ Len(root_head) < MaxRoots
    /\ LET g == alloc_check(GcState, root_head, treshold)
           next == g.head
           inner == Len(boxes) + 1
           outer == Len(boxes) + 2
           \* the nested alloc: allocations < treshold still holds here
           g1 == [bx |-> Append(g.bx, [BoxBase EXCEPT !.ptrs = 1]),
                  head |-> <<inner>> \o g.head,
                  allocations |-> g.allocations + 1]
       IN /\ boxes' = Append(g1.bx, [BoxBase EXCEPT !.ptrs = 1, !.edges = <<inner>>])
          /\ box_head' = <<outer>> \o next
          /\ allocations' = g1.allocations + 1
          /\ treshold' = g.treshold
          /\ collected' = g.ran
          /\ root_head' = <<outer>> \o root_head
    /\ UNCHANGED hptr
    /\ deref' = NoDeref
    /\ UNCHANGED nongc

\* gc.root(ptr) and the Root copy constructor: RootBase::attach at the head.
RootCreate(c) ==
    /\ Len(root_head) < MaxRoots
    /\ root_head' = <<c>> \o root_head
    /\ boxes' = PtrCopy(boxes, c)
    /\ collected' = FALSE
    /\ UNCHANGED <<box_head, hptr, allocations, treshold>>
    /\ deref' = NoDeref
    /\ UNCHANGED nongc

\* Root<T>::~Root: RootBase::detach, then the inner Ptr is dropped.
RootDestroy(i) ==
    /\ root_head' = SubSeq(root_head, 1, i - 1) \o SubSeq(root_head, i + 1, Len(root_head))
    /\ boxes' = PtrDrop(boxes, root_head[i])
    /\ collected' = FALSE
    /\ UNCHANGED <<box_head, hptr, allocations, treshold>>
    /\ deref' = NoDeref
    /\ UNCHANGED nongc

\* Root<T>::operator=(const T&): inner = x.
RootAssign(i, c) ==
    /\ root_head[i] # c
    /\ root_head' = [root_head EXCEPT ![i] = c]
    /\ boxes' = PtrDrop(PtrCopy(boxes, c), root_head[i])
    /\ collected' = FALSE
    /\ UNCHANGED <<box_head, hptr, allocations, treshold>>
    /\ deref' = NoDeref
    /\ UNCHANGED nongc

\* ptr = *root / ptr = Ptr<T>(): Ptr<T>::operator= on the host's variable.
HandleSet(c) ==
    /\ hptr # c
    /\ hptr' = c
    /\ boxes' = PtrDrop(PtrCopy(boxes, c), hptr)
    /\ collected' = FALSE
    /\ UNCHANGED <<box_head, root_head, allocations, treshold>>
    /\ deref' = NoDeref
    /\ UNCHANGED nongc

\* a->add(b): Node::add pushes a copy of b on a's vector; a is
\* dereferenced, so it must be valid.
AddEdge(a, c) ==
    /\ PtrValid(boxes, a)
    /\ Len(boxes[a].edges) < MaxEdges
    /\ boxes' = PtrCopy([boxes EXCEPT ![a].edges = Append(@, c)], c)
    /\ collected' = FALSE
    /\ UNCHANGED <<box_head, root_head, hptr, allocations, treshold>>
    /\ deref' = NoDeref
    /\ UNCHANGED nongc

\* ptr.get(), *ptr, ptr->x, ptr.address() on the host's Ptr variable.
Deref ==
    /\ deref' \in ptr_address(boxes, hptr)
    /\ UNCHANGED <<gcvars, klvars, vmvars, unit, calc, context, text, rootlist>>

\* gc.collect().
Collect ==
    /\ LET g == collect(GcState, root_head)
       IN /\ boxes' = g.bx
          /\ box_head' = g.head
          /\ allocations' = g.allocations
    /\ collected' = TRUE
    /\ UNCHANGED <<root_head, hptr, treshold>>
    /\ deref' = NoDeref
    /\ UNCHANGED nongc

NextGC ==
    \/ Alloc
    \/ AllocNested
    \/ \E c \in HostReach \cup {0} : RootCreate(c)
    \/ \E i \in 1..Len(root_head) : RootDestroy(i)
    \/ \E i \in 1..Len(root_head) : \E c \in HostReach : RootAssign(i, c)
    \/ \E c \in HostReach \cup {0} : HandleSet(c)
    \/ \E a \in HostReach : \E c \in HostReach : AddEdge(a, c)
    \/ Deref
    \/ Collect

SpecGC == InitGC /\ [][NextGC]_vars

(***************************************************************************)
(* The list of roots (detail::RootBase, gc.cpp) of one Collector.  Every   *)
(* Root of the model belongs to this Collector, so RootBase::head is       *)
(* &root_head in each of them.                                             *)
(***************************************************************************)

\* Values a Root holds in the model of the root list.
RootValues == 0..1

\* RootBase::attach: the object at address r becomes the head.
attach(rl, r) ==
    LET next == rl.head
        rl1 == [rl EXCEPT !.nodes[r].prev = 0, !.nodes[r].next = next]
        rl2 == IF next # 0 THEN [rl1 EXCEPT !.nodes[next].prev = r] ELSE rl1
    IN [rl2 EXCEPT !.head = r]

\* A variant of RootBase::detach that leaves the prev of the successor as
\* it is.
detach_forward(rl, r) ==
    LET prev == rl.nodes[r].prev
        next == rl.nodes[r].next
    IN IF prev # 0 THEN [rl EXCEPT !.nodes[prev].next = next]
       ELSE [rl EXCEPT !.head = next]

\* RootBase::detach: the neighbours of the object at r are linked to each
\* other; the fields of the object itself are left as they are.
detach(rl, r) ==
    LET prev == rl.nodes[r].prev
        next == rl.nodes[r].next
        rl1 == IF prev # 0 THEN [rl EXCEPT !.nodes[prev].next = next]
               ELSE [rl EXCEPT !.head = next]
    IN IF next # 0 THEN [rl1 EXCEPT !.nodes[next].prev = prev] ELSE rl1

\* Root<T>::Root(RootBase** head, Args&&...): RootBase(head), then inner.
Root(rl, r, v) ==
    [attach(rl, r) EXCEPT !.nodes[r].alive = TRUE, !.nodes[r].inner = v]

\* gc.root(value) / gc.alloc<T>(): a Root is constructed at a free address.
NewRoot(r, v) ==
    /\ ~rootlist.nodes[r].alive
    /\ rootlist' = Root(rootlist, r, v)
    /\ UNCHANGED <<gcvars, klvars, vmvars, deref, unit, calc, context, text>>

\* auto b = a: the copy (and the move) constructor of Root attach the new
\* object to other.head and copy inner.
CopyRoot(r, other) ==
    /\ ~rootlist.nodes[r].alive
    /\ rootlist.nodes[other].alive
    /\ rootlist' = Root(rootlist, r, rootlist.nodes[other].inner)
    /\ UNCHANGED <<gcvars, klvars, vmvars, deref, unit, calc, context, text>>

\* a = b on two Roots: RootBase::operator= finds head == other.head and
\* leaves the links alone; inner is assigned.
CopyAssignRoot(r, other) ==
    /\ rootlist.nodes[r].alive
    /\ rootlist.nodes[other].alive
    /\ rootlist' = [rootlist EXCEPT !.nodes[r].inner = rootlist.nodes[other].inner]
    /\ UNCHANGED <<gcvars, klvars, vmvars, deref, unit, calc, context, text>>

\* Root<T>::operator=(const T&) and operator=(T&&): inner = x.
AssignRoot(r, v) ==
    /\ rootlist.nodes[r].alive
    /\ rootlist' = [rootlist EXCEPT !.nodes[r].inner = v]
    /\ UNCHANGED <<gcvars, klvars, vmvars, deref, unit, calc, context, text>>

\* Root<T>::~Root: inner is destroyed, then RootBase::~RootBase detaches.
DeleteRoot(r) ==
    /\ rootlist.nodes[r].alive
    /\ rootlist' = [detach(rootlist, r) EXCEPT !.nodes[r].alive = FALSE]
    /\ UNCHANGED <<gcvars, klvars, vmvars, deref, unit, calc, context, text>>

InitRoots ==
    /\ rootlist = NoRootList
    /\ deref = NoDeref
    /\ unit = NoUnit
    /\ calc = NoCalc
    /\ context = NoContext
    /\ text = NoText
    /\ IdleGC
    /\ IdleKlass
    /\ IdleVM

NextRoots ==
    \/ \E r \in 1..MaxRootObjs : \E v \in RootValues : NewRoot(r, v)
    \/ \E r \in 1..MaxRootObjs : \E other \in 1..MaxRootObjs : CopyRoot(r, other)
    \/ \E r \in 1..MaxRootObjs : \E other \in 1..MaxRootObjs : CopyAssignRoot(r, other)
    \/ \E r \in 1..MaxRootObjs : \E v \in RootValues : AssignRoot(r, v)
    \/ \E r \in 1..MaxRootObjs : DeleteRoot(r)

SpecRoots == InitRoots /\ [][NextRoots]_vars

(***************************************************************************)
(* Claims about the collector.                                             *)
(***************************************************************************)

\* C1: no step (a collection run by collect() or inside alloc included)
\* invalidates a cell that is valid and reachable from a registered root,
\* directly or through the payloads of other cells.
C1_ReachableStaysValid ==
    [][\A c \in RootReach : boxes[c].valid => boxes'[c].valid]_vars

\* C2: right after a collection every cell that is not reachable from a
\* registered root is destroyed: its Ptr reports valid() = FALSE, also with
\* unrooted Ptr handles to it.
C2_UnreachableDestroyed ==
    collected => \A c \in 1..Len(boxes) : c \notin RootReach => ~boxes[c].valid

(***************************************************************************)
(* Host operations on the class chain.                                     *)
(***************************************************************************)

\* cls->define(ctx, name, value).
Define(k, name, value) ==
    /\ Len(tokens) + 2 <= MaxTokens
    /\ LET st == define([methods |-> methods, tokens |-> tokens], k, name, value)
       IN /\ methods' = st.methods
          /\ tokens' = st.tokens
    /\ ret' = [op |-> "define", klass |-> k, name |-> name, found |-> FALSE, value |-> 0]
    /\ UNCHANGED nonkl

\* cls->remove(name).
Remove(k, name) ==
    /\ LET r == remove(methods, tokens, k, name)
       IN /\ methods' = r.methods
          /\ tokens' = r.tokens
          /\ ret' = [op |-> "remove", klass |-> k, name |-> name,
                     found |-> r.found, value |-> r.value]
    /\ UNCHANGED nonkl

\* cls->lookup(name).
Lookup(k, name) ==
    /\ LET r == lookup(methods, tokens, k, name)
       IN /\ methods' = r.methods
          /\ tokens' = r.tokens
          /\ ret' = [op |-> "lookup", klass |-> k, name |-> name,
                     found |-> r.found, value |-> r.value]
    /\ UNCHANGED nonkl

InitKlass == NewKlass /\ IdleGC /\ IdleVM /\ IdleHost

NextKlass ==
    \/ \E k \in 1..NClasses : \E name \in Names : \E v \in 1..NValues :
          Define(k, name, v)
    \/ \E k \in 1..NClasses : \E name \in Names : Remove(k, name)
    \/ \E k \in 1..NClasses : \E name \in Names : Lookup(k, name)

SpecKlass == InitKlass /\ [][NextKlass]_vars

(***************************************************************************)
(* Claims about the class chain.                                           *)
(***************************************************************************)

\* The nearest class on the base chain of k (k included) that owns an entry
\* for name; 0 when no class of the chain owns one.
RECURSIVE Owner(_, _)
Owner(k, name) ==
    IF k = 0 THEN 0
    ELSE IF methods[k][name].has /\ methods[k][name].own THEN k
    ELSE Owner(base(k), name)

\* C3: in every state reached by define, remove and lookup calls, lookup of
\* any name on any class returns the value of the owned entry of the nearest
\* class on its base chain that owns one, and nothing when no class of the
\* chain owns one; the last lookup actually made returned just that.
C3_CacheCoherence ==
    /\ \A k \in 1..NClasses : \A name \in Names :
          LET r == lookup(methods, tokens, k, name)
              o == Owner(k, name)
          IN /\ r.found <=> o # 0
             /\ r.found => r.value = methods[o][name].value
    /\ ret.op = "lookup" =>
          LET o == Owner(ret.klass, ret.name)
          IN /\ ret.found <=> o # 0
             /\ ret.found => ret.value = methods[o][ret.name].value

\* A lookup on the most derived class has just returned the method of the
\* middle class, which shadows a different value owned by the root class,
\* after some token was invalidated.
C3_Witness ==
    /\ ret.op = "lookup" /\ ret.klass = NClasses /\ ret.found
    /\ Owner(NClasses, ret.name) = 2
    /\ methods[1][ret.name].has /\ methods[1][ret.name].own
    /\ methods[1][ret.name].value # ret.value
    /\ \E t \in 1..Len(tokens) : ~tokens[t]

(***************************************************************************)
(* The run of the virtual machine.                                         *)
(***************************************************************************)

\* The fields of the VM and the heap as one record.
VmState ==
    [status |-> status, data_stack |-> data_stack, call_stack |-> call_stack,
     exception_stack |-> exception_stack, exception_thrown |-> exception_thrown,
     fns |-> fns, ups |-> ups, objs |-> objs, methods |-> methods,
     tokens |-> tokens, log |-> log, nextid |-> nextid,
     protos |-> protos, send_fallback_fn |-> SendFallbackFn,
     invalid |-> invalid, foreign |-> foreign]

\* The state after an operation that left the record m.
Commit(m) ==
    /\ status' = m.status
    /\ data_stack' = m.data_stack
    /\ call_stack' = m.call_stack
    /\ exception_stack' = m.exception_stack
    /\ exception_thrown' = m.exception_thrown
    /\ fns' = m.fns
    /\ ups' = m.ups
    /\ objs' = m.objs
    /\ methods' = m.methods
    /\ tokens' = m.tokens
    /\ log' = m.log
    /\ nextid' = m.nextid
    /\ invalid' = m.invalid
    /\ foreign' = m.foreign
    /\ UNCHANGED <<prog, protos, main, ret, gcvars, hostvars>>

\* One instruction executed: the host's result is not touched.
Step(m) == Commit(m) /\ UNCHANGED result

\* The code of the function of the top frame.
Code == protos[fns[TopFrame(VmState).func].proto].code
Consts == protos[fns[TopFrame(VmState).func].proto].constants

\* The loop of VM::run is about to execute an instruction.
Stepping == status = "running" /\ Len(call_stack) > 0

\* auto instr = code[frame.ip++].
InRange == Stepping /\ TopFrame(VmState).ip < Len(Code)
CurInstr == Code[TopFrame(VmState).ip + 1]
Fetch(op) == InRange /\ CurInstr.op = op
Fetched == [VmState EXCEPT !.call_stack[Len(call_stack)].ip = @ + 1]

InitVM ==
    /\ \E p \in 1..NPrograms : NewVM(p)
    /\ methods = BootMethods.methods
    /\ tokens = BootMethods.tokens
    /\ ret = [op |-> "none", klass |-> 0, name |-> "", found |-> FALSE, value |-> 0]
    /\ IdleGC
    /\ IdleHost

\* vm->call(main, {}): VM::call up to the call of run.
VMCall ==
    /\ status = "idle"
    /\ LET m0 == [VmState EXCEPT !.status = "running", !.data_stack = <<>>,
                                 !.call_stack = <<>>, !.exception_stack = <<>>,
                                 !.exception_thrown = FALSE]
           m1 == push_data(push_data(m0, FnV(main)), IntV(0))
       IN Step(call_(m1))

\* assert(frame.ip < code.size()) fails.
RunAssert ==
    /\ Stepping /\ ~InRange
    /\ Step(Abort(VmState))

Nop == Fetch("Nop") /\ Step(Fetched)

Pop == Fetch("Pop") /\ Step(pop_data(Fetched).vm)

Nip == Fetch("Nip") /\ Step(nip_data(Fetched))

Dup ==
    /\ Fetch("Dup")
    /\ Step(IF Len(data_stack) = 0 THEN Abort(Fetched)
              ELSE push_data(Fetched, peek_data(Fetched)))

Nil == Fetch("Nil") /\ Step(push_data(Fetched, NilV))

GetVar == Fetch("GetVar") /\ Step(get_variable(Fetched, CurInstr.arg))

SetVar == Fetch("SetVar") /\ Step(set_variable(Fetched, CurInstr.arg))

GetConst ==
    /\ Fetch("GetConst")
    /\ Step(IF CurInstr.arg >= Len(Consts) THEN Abort(Fetched)
              ELSE note(push_data(Fetched, Consts[CurInstr.arg + 1]),
                        Consts[CurInstr.arg + 1]))

GetUp == Fetch("GetUp") /\ Step(get_upvalue(Fetched, CurInstr.arg))

SetUp == Fetch("SetUp") /\ Step(set_upvalue(Fetched, CurInstr.arg))

ResetUp == Fetch("ResetUp") /\ Step(reset_upvalues(Fetched))

MakeUp == Fetch("MakeUp") /\ Step(make_upvalue(Fetched, CurInstr.arg))

CopyUp == Fetch("CopyUp") /\ Step(copy_upvalue(Fetched, CurInstr.arg))

GetProp == Fetch("GetProp") /\ Step(get_property(Fetched))

SetProp == Fetch("SetProp") /\ Step(set_property(Fetched))

Call == Fetch("Call") /\ Step(call_(Fetched))

Send == Fetch("Send") /\ Step(send_(Fetched))

Return == Fetch("Return") /\ Step(return_(Fetched))

Jump == Fetch("Jump") /\ Step(jump(Fetched, CurInstr.arg))

JumpIf == Fetch("JumpIf") /\ Step(jump_cond(Fetched, CurInstr.arg, TRUE))

JumpUnless == Fetch("JumpUnless") /\ Step(jump_cond(Fetched, CurInstr.arg, FALSE))

Throw == Fetch("Throw") /\ Step(throw_(Fetched))

Catch == Fetch("Catch") /\ Step(catch_(Fetched, CurInstr.arg))

Uncatch == Fetch("Uncatch") /\ Step(uncatch(Fetched))

\* The end of VM::run: the loop is over, the result is popped and either
\* returned or thrown to the host.
RunEnd ==
    /\ status = "running" /\ Len(call_stack) = 0 /\ foreign = <<>>
    /\ IF Len(data_stack) # 1 \/ Len(exception_stack) # 0
       THEN Step(Abort(VmState))
       ELSE LET r == pop_data(VmState)
            IN /\ Commit([r.vm EXCEPT !.status =
                             IF exception_thrown THEN "thrown" ELSE "returned"])
               /\ result' = r.value

NextVM ==
    \/ VMCall
    \/ RunAssert
    \/ Nop \/ Pop \/ Nip \/ Dup \/ Nil
    \/ GetVar \/ SetVar \/ GetConst
    \/ GetUp \/ SetUp \/ ResetUp \/ MakeUp \/ CopyUp
    \/ GetProp \/ SetProp
    \/ Call \/ Send
    \/ Return \/ Jump \/ JumpIf \/ JumpUnless
    \/ Throw \/ Catch \/ Uncatch
    \/ RunEnd

SpecVM == InitVM /\ [][NextVM]_vars

(***************************************************************************)
(* The virtual machine with its host: collections between the runs, and a  *)
(* foreign function that calls back into the VM.                           *)
(***************************************************************************)

\* The Function cell a value holds.
FnsOf(v) == IF v.t = "fn" THEN {v.n} ELSE {}

\* Function::trace, FunctionProto::trace, Upvalue::trace: the Function
\* cells reached from the Function cell f in one step.
FnRefs(f) ==
    UNION { FnsOf(protos[fns[f].proto].constants[i]) :
              i \in DOMAIN protos[fns[f].proto].constants }
    \cup UNION { IF ups[fns[f].upvalues[i]].open THEN {}
                 ELSE FnsOf(ups[fns[f].upvalues[i]].value) :
                 i \in DOMAIN fns[f].upvalues }

\* VM::trace: the values of the data stack, the upvalues of its slots, the
\* functions of the call frames.
VMTrace ==
    UNION { FnsOf(data_stack[i].value) : i \in DOMAIN data_stack }
    \cup UNION { IF data_stack[i].upvalue = 0 \/ ups[data_stack[i].upvalue].open
                 THEN {}
                 ELSE FnsOf(ups[data_stack[i].upvalue].value) :
                 i \in DOMAIN data_stack }
    \cup { call_stack[i].func : i \in DOMAIN call_stack }

\* What the roots of the host hold: main, the methods of the classes, the
\* properties of the objects.
HostRoots ==
    {main}
    \cup UNION { IF methods[k][x].has THEN FnsOf(methods[k][x].value) ELSE {} :
                 k \in VmClasses, x \in VmNames }
    \cup UNION { UNION { FnsOf(objs[o].properties[x]) :
                         x \in DOMAIN objs[o].properties } : o \in DOMAIN objs }

\* The mark phase of Collector::collect over the Function cells.
RECURSIVE Marked(_)
Marked(S) ==
    LET next == S \cup UNION { FnRefs(f) : f \in S }
    IN IF next = S THEN S ELSE Marked(next)

\* ctx.collect() by the host between two runs of the rooted VM: the
\* Function cells that were not marked are invalidated.
VMCollect ==
    /\ status = "idle"
    /\ invalid' = invalid \cup (DOMAIN fns \ Marked(VMTrace \cup HostRoots))
    /\ UNCHANGED <<prog, protos, main, status, data_stack, call_stack,
                   exception_stack, exception_thrown, fns, ups, objs, log,
                   nextid, result, foreign, klvars, gcvars, hostvars>>

\* The end of the VM::run that Array.map entered, the rest of Array.map and
\* the rest of VM::call_foreign: the result of the run becomes the element
\* of the array and the array is pushed; a value thrown by the run is
\* thrown again by call_foreign.
ForeignReturn ==
    /\ status = "running" /\ Len(call_stack) = 0 /\ foreign # <<>>
    /\ IF Len(data_stack) # 1 \/ Len(exception_stack) # 0
       THEN Step(Abort(VmState))
       ELSE LET r == pop_data(VmState)
                m1 == [r.vm EXCEPT !.foreign = SubSeq(@, 1, Len(@) - 1)]
            IN IF exception_thrown THEN Step(throw_(push_data(m1, r.value)))
               ELSE IF r.value.t # "int" THEN Step(Abort(m1))
               ELSE Step(push_data(m1, ArrV(r.value.n)))

InitHost ==
    /\ \E p \in 1..(NPrograms + 1) : NewVM(p)
    /\ methods = BootMethods.methods
    /\ tokens = BootMethods.tokens
    /\ ret = [op |-> "none", klass |-> 0, name |-> "", found |-> FALSE, value |-> 0]
    /\ IdleGC
    /\ IdleHost

NextHost ==
    \/ NextVM
    \/ VMCollect
    \/ ForeignReturn

SpecHost == InitHost /\ [][NextHost]_vars

(***************************************************************************)
(* The compiler on its own: source texts with one break, continue or       *)
(* return nested in up to MaxNest constructs.                              *)
(***************************************************************************)

\* The constructs: a loop body, a loop condition, a defer body, a function
\* body, a block, a try body, a catch clause.
Constructs == {"while", "cond", "defer", "lambda", "block", "try", "catch"}

Wrap(w, e) ==
    CASE w = "while" -> WhileExpr(VariableExpr("true"), << e >>)
      [] w = "cond" -> WhileExpr(e, <<>>)
      [] w = "defer" -> DeferExpr(e)
      [] w = "lambda" -> LambdaExpr(<<>>, << e >>)
      [] w = "block" -> BlockExpr(<< e >>)
      [] w = "try" -> TryExpr(<< e >>, "x", <<>>)
      [] w = "catch" -> TryExpr(<<>>, "x", << e >>)

Leaf(l) ==
    CASE l = "break" -> BreakExpr
      [] l = "continue" -> ContinueExpr
      [] l = "return" -> ReturnExpr(None)
      [] l = "return 1" -> ReturnExpr(Some(IntExpr(1)))

RECURSIVE Nest(_, _)
Nest(ctx, e) == IF ctx = <<>> THEN e ELSE Wrap(Head(ctx), Nest(Tail(ctx), e))

\* The body of a unit.
UnitBody(u) == << Nest(u.ctx, Leaf(u.leaf)) >>

InitCompile ==
    /\ \E n \in 0..MaxNest : \E ctx \in [1..n -> Constructs] :
       \E l \in {"break", "continue", "return", "return 1"} :
          unit = [ctx |-> ctx, leaf |-> l, state |-> "source", error |-> ""]
    /\ deref = NoDeref
    /\ calc = NoCalc
    /\ context = NoContext
    /\ text = NoText
    /\ rootlist = NoRootList
    /\ IdleGC
    /\ IdleKlass
    /\ IdleVM

\* Compiler(ctx).compile(body): the function, or the exception.
Compile ==
    /\ unit.state = "source"
    /\ LET c == compile_main(UnitBody(unit))
       IN unit' = [unit EXCEPT !.state = IF Failed(c) THEN "rejected" ELSE "compiled",
                               !.error = c.error]
    /\ UNCHANGED <<gcvars, klvars, vmvars, deref, calc, context, text, rootlist>>

NextCompile == Compile

SpecCompile == InitCompile /\ [][NextCompile]_vars

(***************************************************************************)
(* The bootstrap of the class graph.                                       *)
(***************************************************************************)

\* alloc<Klass>(klass, base): Klass::Klass(const Ptr<Klass>&, const
\* std::optional<Ptr<Klass>>&); the new cell is the last one.
Klass_plain(cells, klass, parent) ==
    Append(cells, [klass |-> klass, base |-> parent])

\* A variant of Klass_derived that gives the class no base.
Klass_baseless(cells, parent) ==
    LET meta == Klass_plain(cells, cells[cells[parent].klass].klass, cells[parent].klass)
    IN Klass_plain(meta, Len(meta), 0)

\* alloc<Klass>(ctx, base): Klass::Klass(Context&, const Ptr<Klass>&), which
\* allocates the metaclass first; the new class is the last cell.
Klass_derived(cells, parent) ==
    LET meta == Klass_plain(cells, cells[cells[parent].klass].klass, cells[parent].klass)
    IN Klass_plain(meta, Len(meta), parent)

\* The five statements that Context::Context and load_builtins share;
\* yields [cells, cls].
bootstrap(cx) ==
    LET c1 == Klass_plain(cx.cells, 0, 0)
        object_cls == Len(c1)
        c2 == Klass_plain(c1, 0, 0)
        class_cls == Len(c2)
        c3 == Klass_plain(c2, class_cls, class_cls)
    IN [cells |-> [c3 EXCEPT ![object_cls].klass = Len(c3),
                             ![class_cls].klass = class_cls,
                             ![class_cls].base = object_cls],
        cls |-> [cx.cls EXCEPT !.object_cls = object_cls, !.class_cls = class_cls]]

\* field = *alloc<Klass>(ctx, ctx.object_cls) for the fields in order.
RECURSIVE load_classes(_, _)
load_classes(cx, fields) ==
    IF fields = <<>> THEN cx
    ELSE LET cells == Klass_derived(cx.cells, cx.cls.object_cls)
         IN load_classes([cells |-> cells,
                          cls |-> [cx.cls EXCEPT ![Head(fields)] = Len(cells)]],
                         Tail(fields))

InitContext ==
    /\ context = NoContext
    /\ deref = NoDeref
    /\ unit = NoUnit
    /\ calc = NoCalc
    /\ text = NoText
    /\ rootlist = NoRootList
    /\ IdleGC
    /\ IdleKlass
    /\ IdleVM

\* Context::Context.
NewContext ==
    /\ context.stage = "none"
    /\ LET cx == load_classes(bootstrap(context),
                      << "nil_cls", "bool_cls", "int_cls", "string_cls",
                         "function_cls" >>)
       IN context' = [cells |-> cx.cells, cls |-> cx.cls, stage |-> "constructed"]
    /\ UNCHANGED <<gcvars, klvars, vmvars, deref, unit, calc, text, rootlist>>

\* load_builtins(ctx): the classes are made anew.
LoadBuiltins ==
    /\ context.stage = "constructed"
    /\ LET cx == load_classes(bootstrap(context),
                      << "nil_cls", "bool_cls", "int_cls", "string_cls",
                         "array_cls", "function_cls" >>)
       IN context' = [cells |-> cx.cells, cls |-> cx.cls, stage |-> "loaded"]
    /\ UNCHANGED <<gcvars, klvars, vmvars, deref, unit, calc, text, rootlist>>

\* Classes allocated since the last bootstrap.
Subclasses ==
    (Len(context.cells) - (IF context.stage = "loaded" THEN 28 ELSE 13)) \div 2

\* Class.subclass of the class in cell parent, and
\* ctx.alloc<Klass>(ctx, parent)
\* of a host.
Subclass(parent) ==
    /\ context.stage \in {"constructed", "loaded"}
    /\ Subclasses < MaxSubclasses
    /\ context.cells[parent].klass # 0
    /\ context' = [context EXCEPT !.cells = Klass_derived(@, parent)]
    /\ UNCHANGED <<gcvars, klvars, vmvars, deref, unit, calc, text, rootlist>>

NextContext ==
    \/ NewContext
    \/ LoadBuiltins
    \/ \E parent \in 1..Len(context.cells) : Subclass(parent)

SpecContext == InitContext /\ [][NextContext]_vars

(***************************************************************************)
(* String literals (strings.cpp).  A string is a sequence of bytes 0..255; *)
(* signed tells whether char is a signed type, in which case the bytes     *)
(* from 128 on compare as negative numbers.                                *)
(***************************************************************************)
DQuote == 34
Backslash == 92
Bell == 7
LetterX == 120

\* 'a', 'b', 't', 'n', 'v', 'f', 'r'
escapes == << 97, 98, 116, 110, 118, 102, 114 >>
\* '"', '\\'
specials == << DQuote, Backslash >>

\* The value of the char with byte b in a comparison with an int.
CharValue(b, signed) == IF signed /\ b >= 128 THEN b - 256 ELSE b

\* find_char: the index from 0, if any.
find_char(xs, x) ==
    IF \E i \in 1..Len(xs) : xs[i] = x
    THEN Some((CHOOSE i \in 1..Len(xs) : xs[i] = x /\ \A j \in 1..(i - 1) : xs[j] # x) - 1)
    ELSE None

\* The digit d of std::hex with std::uppercase.
HexDigit(d) == IF d < 10 THEN 48 + d ELSE 65 + d - 10

\* operator<<(int) under std::hex and std::uppercase, n >= 0.
RECURSIVE to_hex(_)
to_hex(n) ==
    IF n < 16 THEN << HexDigit(n) >> ELSE Append(to_hex(n \div 16), HexDigit(n % 16))

\* std::setw(2) << std::setfill('0') in front of it.
hex_field(n) ==
    IF Len(to_hex(n)) < 2 THEN << 48 >> \o to_hex(n) ELSE to_hex(n)

\* A variant of quote_char that writes quotes and backslashes as they are.
quote_char_plain(c, signed) ==
    IF Bell <= CharValue(c, signed) /\ CharValue(c, signed) <= 13
    THEN << Backslash, escapes[CharValue(c, signed) - Bell + 1] >>
    ELSE IF 0 <= CharValue(c, signed) /\ CharValue(c, signed) <= 31
    THEN << Backslash, LetterX >> \o hex_field(CharValue(c, signed))
    ELSE << c >>

\* The body of the loop of quote_string: what it writes for the char c.
quote_char(c, signed) ==
    IF Bell <= CharValue(c, signed) /\ CharValue(c, signed) <= 13
    THEN << Backslash, escapes[CharValue(c, signed) - Bell + 1] >>
    ELSE IF find_char(specials, c).has
    THEN << Backslash, c >>
    ELSE IF 0 <= CharValue(c, signed) /\ CharValue(c, signed) <= 31
    THEN << Backslash, LetterX >> \o hex_field(CharValue(c, signed))
    ELSE << c >>

RECURSIVE quote_chars(_, _)
quote_chars(str, signed) ==
    IF str = <<>> THEN <<>>
    ELSE quote_char(Head(str), signed) \o quote_chars(Tail(str), signed)

quote_string(str, signed) == << DQuote >> \o quote_chars(str, signed) \o << DQuote >>

\* parse_hex, with out the number read so far.
RECURSIVE parse_hex_from(_, _)
parse_hex_from(str, out) ==
    IF str = <<>> THEN Some(out)
    ELSE LET c == Head(str)
         IN IF 48 <= c /\ c <= 57
            THEN parse_hex_from(Tail(str), out * 16 + (c - 48))
            ELSE IF 97 <= c /\ c <= 102
            THEN parse_hex_from(Tail(str), out * 16 + (10 + c - 97))
            ELSE IF 65 <= c /\ c <= 70
            THEN parse_hex_from(Tail(str), out * 16 + (10 + c - 65))
            ELSE None

parse_hex(str) == parse_hex_from(str, 0)

\* The loop of unquote_string; i and end count from 0 as in the source.
RECURSIVE unquote_from(_, _, _, _)
unquote_from(str, i, end, buf) ==
    IF i >= end THEN Some(buf)
    ELSE IF str[i + 1] = Backslash /\ i + 1 < end
    THEN IF find_char(escapes, str[i + 2]).has
         THEN unquote_from(str, i + 2, end,
                  Append(buf, Bell + find_char(escapes, str[i + 2]).val))
         ELSE IF find_char(specials, str[i + 2]).has
         THEN unquote_from(str, i + 2, end, Append(buf, str[i + 2]))
         ELSE IF str[i + 2] = LetterX /\ i + 3 < end
                 /\ parse_hex(SubSeq(str, i + 3, i + 4)).has
         THEN unquote_from(str, i + 4, end,
                  Append(buf, parse_hex(SubSeq(str, i + 3, i + 4)).val % 256))
         ELSE None
    ELSE IF str[i + 1] # Backslash
    THEN unquote_from(str, i + 1, end, Append(buf, str[i + 1]))
    ELSE None

unquote_string(str) ==
    IF Len(str) < 2 \/ str[1] # DQuote \/ str[Len(str)] # DQuote THEN None
    ELSE unquote_from(str, 1, Len(str) - 1, <<>>)

\* The bytes of the strings of the model: one or more of every kind that
\* quote_string tells apart, and the letters and digits that an escape
\* sequence is made of.
Bytes == { 0, Bell, 10, 13, 27, 31, DQuote, 49, 65, 110, Backslash, LetterX, 128, 255 }

InitStrings ==
    /\ \E n \in 0..MaxLen : \E str \in [1..n -> Bytes] : \E signed \in BOOLEAN :
          text = [s |-> str, signed |-> signed, quoted |-> <<>>,
                  back |-> None, stage |-> "plain"]
    /\ deref = NoDeref
    /\ unit = NoUnit
    /\ calc = NoCalc
    /\ context = NoContext
    /\ rootlist = NoRootList
    /\ IdleGC
    /\ IdleKlass
    /\ IdleVM

\* quote_string(s).
Quote ==
    /\ text.stage = "plain"
    /\ text' = [text EXCEPT !.quoted = quote_string(text.s, text.signed),
                            !.stage = "quoted"]
    /\ UNCHANGED <<gcvars, klvars, vmvars, deref, unit, calc, context, rootlist>>

\* unquote_string of what quote_string returned.
Unquote ==
    /\ text.stage = "quoted"
    /\ text' = [text EXCEPT !.back = unquote_string(text.quoted),
                            !.stage = "unquoted"]
    /\ UNCHANGED <<gcvars, klvars, vmvars, deref, unit, calc, context, rootlist>>

NextStrings == Quote \/ Unquote

SpecStrings == InitStrings /\ [][NextStrings]_vars

(***************************************************************************)
(* The arithmetic methods of Int on their own (load_int).                  *)
(***************************************************************************)
IntMin == -(2 ^ (IntBits - 1))
IntMax == 2 ^ (IntBits - 1) - 1
Ints == IntMin..IntMax

\* What a call comes to: the Int returned, the script error thrown by
\* error(ctx, msg), or the end of the process.
Returned(n) == [kind |-> "value", n |-> n, msg |-> ""]
Raised(msg) == [kind |-> "throw", n |-> 0, msg |-> msg]
Fault == [kind |-> "fault", n |-> 0, msg |-> ""]

\* The value of an expression of type int64_t whose mathematical value is
\* not an int64_t is not defined by the language: the build either wraps
\* it or stops the process.
Undefined(z) == { Returned(((z - IntMin) % (2 ^ IntBits)) + IntMin), Fault }

\* __builtin_add_overflow and its kin: the result, or the error.
checked(z) == IF z \in Ints THEN { Returned(z) } ELSE { Raised("Int overflow") }

\* Int.~
Int_neg(x) ==
    IF x = IntMax THEN { Raised("Int overflow") }
    ELSE IF -x \in Ints THEN { Returned(-x) } ELSE Undefined(-x)

\* Int.+
Int_add(x, y) == checked(x + y)

\* Int.-
Int_sub(x, y) == checked(x - y)

\* Int.*
Int_mul(x, y) == checked(x * y)

\* Int./
Int_div(x, y) ==
    IF y = 0 THEN { Raised("Division by zero") }
    ELSE IF cpp_div(x, y) \in Ints THEN { Returned(cpp_div(x, y)) }
    ELSE Undefined(cpp_div(x, y))

InitInt ==
    /\ \E op \in {"~", "+", "-", "*", "/"} : \E x \in Ints :
       \E y \in (IF op = "~" THEN {0} ELSE Ints) :
          calc = [op |-> op, x |-> x, y |-> y, kind |-> "input", n |-> 0, msg |-> ""]
    /\ deref = NoDeref
    /\ unit = NoUnit
    /\ context = NoContext
    /\ text = NoText
    /\ rootlist = NoRootList
    /\ IdleGC
    /\ IdleKlass
    /\ IdleVM

\* The call of the method op of x, with argument y when it takes one.
IntCall(op, outcomes) ==
    /\ calc.kind = "input" /\ calc.op = op
    /\ \E r \in outcomes :
          calc' = [calc EXCEPT !.kind = r.kind, !.n = r.n, !.msg = r.msg]
    /\ UNCHANGED <<gcvars, klvars, vmvars, deref, unit, context, text, rootlist>>

Negate == IntCall("~", Int_neg(calc.x))
Add == IntCall("+", Int_add(calc.x, calc.y))
Subtract == IntCall("-", Int_sub(calc.x, calc.y))
Multiply == IntCall("*", Int_mul(calc.x, calc.y))
Divide == IntCall("/", Int_div(calc.x, calc.y))

NextInt == Negate \/ Add \/ Subtract \/ Multiply \/ Divide

SpecInt == InitInt /\ [][NextInt]_vars

(***************************************************************************)
(* Claims about the virtual machine and the compiler.                      *)
(***************************************************************************)

\* Number of the i-th source program.
CompiledProg(i) == Len(Assembled) + i

\* The run is over and the host has its answer.
Finished == status \in {"returned", "thrown"}

\* The instruction the next step of the run loop executes is op.
About(op) == Stepping /\ InRange /\ CurInstr.op = op

\* Value on top of a data stack.
TopValue(stack) == stack[Len(stack)].value

\* The slot that was pushed with history id i is on the stack; its value.
OnStack(stack, i) == \E j \in 1..Len(stack) : stack[j].id = i
SlotValue(stack, i) == stack[CHOOSE j \in 1..Len(stack) : stack[j].id = i].value

\* The upvalue cell that index arg denotes in the running closure.
FrameUpvalue(arg) == fns[TopFrame(VmState).func].upvalues[arg + 1]

\* Every open upvalue denotes the slot it was made for and that slot refers
\* back to it, a slot on the stack is never behind a closed cell, and no
\* slot has two cells.
UpvaluesSound ==
    /\ \A u \in 1..Len(ups) :
          IF ups[u].open
          THEN /\ ups[u].idx < Len(data_stack)
               /\ data_stack[ups[u].idx + 1].id = ups[u].origin
               /\ data_stack[ups[u].idx + 1].upvalue = u
          ELSE ~OnStack(data_stack, ups[u].origin)
    /\ \A u1, u2 \in 1..Len(ups) : ups[u1].origin = ups[u2].origin => u1 = u2

C4_Step ==
    /\ UpvaluesSound'
    \* MakeUp gives the closure the cell of the local it names
    /\ (About("MakeUp") /\ status' = "running") =>
          LET idx == TopFrame(VmState).data_bottom + CurInstr.arg
              func == TopValue(data_stack).n
          IN /\ Len(fns'[func].upvalues) = Len(fns[func].upvalues) + 1
             /\ ups'[fns'[func].upvalues[Len(fns'[func].upvalues)]].origin
                    = data_stack[idx + 1].id
    \* GetUp reads the slot while it is on the stack, the cell afterwards
    /\ (About("GetUp") /\ status' = "running") =>
          LET cell == ups[FrameUpvalue(CurInstr.arg)]
          IN TopValue(data_stack') =
                 IF OnStack(data_stack, cell.origin)
                 THEN SlotValue(data_stack, cell.origin)
                 ELSE cell.value
    \* SetUp writes the slot while it is on the stack, the cell afterwards
    /\ (About("SetUp") /\ status' = "running") =>
          LET u == FrameUpvalue(CurInstr.arg)
          IN IF OnStack(data_stack', ups[u].origin)
             THEN SlotValue(data_stack', ups[u].origin) = TopValue(data_stack)
             ELSE ups'[u].value = TopValue(data_stack)
    \* a cell closes with the last value of its slot and stays closed; only
    \* SetUp changes a closed cell
    /\ \A u \in 1..Len(ups) :
          /\ (ups[u].open /\ ~ups'[u].open) =>
                ups'[u].value = SlotValue(data_stack, ups[u].origin)
          /\ ~ups[u].open =>
                /\ ~ups'[u].open
                /\ ups'[u].value # ups[u].value =>
                      About("SetUp") /\ FrameUpvalue(CurInstr.arg) = u

\* C4: while a captured local's slot is on the data stack, GetUp through any
\* closure that captured it yields the slot's current value and SetUp changes
\* the slot; when the slot is removed the closures that captured it share one
\* closed cell that starts with the slot's last value, and a write through
\* one closure is what every other closure reads.
C4_UpvalueSoundness == [][C4_Step]_vars

\* Two closures hold the same closed cell, and the run returned the value
\* that one of them read after the other one wrote it.
C4_Witness ==
    /\ prog = CompiledProg(4) /\ status = "returned" /\ result = IntV(12)
    /\ \E u \in 1..Len(ups) :
          /\ ~ups[u].open /\ ups[u].value = IntV(12)
          /\ \E f1, f2 \in 1..Len(fns) :
                /\ f1 # f2
                /\ \E i \in 1..Len(fns[f1].upvalues) : fns[f1].upvalues[i] = u
                /\ \E i \in 1..Len(fns[f2].upvalues) : fns[f2].upvalues[i] = u

\* The defers that are registered and have not run after the marker events
\* so far, oldest first, and whether every event so far was in order: a defer
\* body runs only when its defer is the youngest pending one, and a Chk(d)
\* marker is passed with exactly d pending defers.
RECURSIVE DeferFold(_, _, _)
DeferFold(events, pending, ok) ==
    IF Len(events) = 0 THEN [pending |-> pending, ok |-> ok]
    ELSE LET n == Head(events)
         IN IF n >= ThrowBase THEN DeferFold(Tail(events), pending, ok)
            ELSE IF n >= ChkBase
            THEN DeferFold(Tail(events), pending, ok /\ Len(pending) = n - ChkBase)
            ELSE IF n >= RunBase
            THEN IF Len(pending) > 0 /\ pending[Len(pending)] = n - RunBase
                 THEN DeferFold(Tail(events), SubSeq(pending, 1, Len(pending) - 1), ok)
                 ELSE DeferFold(Tail(events), pending, FALSE)
            ELSE DeferFold(Tail(events), Append(pending, n - RegBase), ok)

Defers == DeferFold(log, <<>>, TRUE)

\* C5: on every exit of a block (end of block, break, continue, return, a
\* throw passing through) the defers of the blocks that are left run
\* youngest first, inner blocks before outer blocks, and all of them have
\* run when the code after the block goes on and when the run is over.
C5_DefersRunLifo == Defers.ok /\ (Finished => Defers.pending = <<>>)

\* A break (or a return) left three nested blocks with one defer each: the
\* three bodies ran innermost first before the code after the loop.
C5_Witness ==
    /\ Finished
    /\ log = << RegBase + 1, RegBase + 2, RegBase + 3, ChkBase + 3,
                RunBase + 3, RunBase + 2, RunBase + 1, ChkBase >>

\* The marked values thrown so far.
Thrown == SelectSeq(log, LAMBDA n : n >= ThrowBase /\ n < DepthBase)

\* C6: when a defer body throws, at a normal exit, a break, a continue or a
\* return or while it runs as exception handler, the defers registered before
\* it in the same block and in the enclosing blocks still run, in order, and
\* the value it threw is what the nearest try handler or the host gets.
C6_ThrowingDeferUnwinds ==
    Len(Thrown) > 0 =>
        /\ Defers.ok
        /\ Finished => /\ Defers.pending = <<>>
                       /\ result = IntV(Thrown[Len(Thrown)])

\* The body of the third defer threw while it was replayed at the end of its
\* block; the two older defers ran after that and the handler of the try got
\* the value.
C6_Witness ==
    /\ status = "returned" /\ result = IntV(ThrowBase + 3)
    /\ log = << RegBase + 1, RegBase + 2, RegBase + 3,
                RunBase + 3, ThrowBase + 3, RunBase + 2, RunBase + 1, ChkBase >>

\* C7: when the loop of VM::run ends without an exception, the data stack
\* holds exactly one entry and the exception stack is empty (the call stack
\* is empty because the loop ended).
C7_StackBalance ==
    (status = "running" /\ Len(call_stack) = 0 /\ ~exception_thrown) =>
        Len(data_stack) = 1 /\ Len(exception_stack) = 0

\* The run loop of a compiled program that used calls, closures, loops and
\* handlers has just ended normally.
C7_Witness ==
    /\ prog > Len(Assembled)
    /\ status = "running" /\ Len(call_stack) = 0 /\ ~exception_thrown
    /\ Len(log) > 0

C8_Step ==
    /\ (About("Throw") /\ Len(exception_stack) = 0 /\ Len(data_stack) > 0) =>
          /\ status' = "running"
          /\ call_stack' = <<>>
          /\ Len(data_stack') = 1
          /\ data_stack'[1].value = TopValue(data_stack)
          /\ exception_thrown'
    /\ (status = "running" /\ Len(call_stack) = 0 /\ exception_thrown) =>
          /\ status' = "thrown"
          /\ result' = TopValue(data_stack)

\* C8: a Throw executed with an empty exception stack drops every call frame
\* and leaves the thrown value as the only entry of the data stack, and the
\* run then hands exactly that value to the host as a thrown error, not as a
\* result.
C8_UnhandledThrow == [][C8_Step]_vars

\* The throw at the end of CompilerTest.BreakFromTryBlock reached the host.
C8_Witness ==
    prog = CompiledProg(2) /\ status = "thrown" /\ result = IntV(1)

\* Every installed handler belongs to a live call frame: it was installed
\* after that frame was entered and before the frame above it was entered.
HandlersNested ==
    \A i \in 1..Len(exception_stack) :
        LET h == exception_stack[i]
        IN /\ h.call_bottom >= 1 /\ h.call_bottom <= Len(call_stack)
           /\ call_stack[h.call_bottom].exception_bottom < i
           /\ h.call_bottom < Len(call_stack) =>
                 call_stack[h.call_bottom + 1].exception_bottom >= i

C9_Step ==
    /\ status' = "running" => HandlersNested'
    /\ (About("Throw") /\ Len(exception_stack) > 0 /\ Len(data_stack) > 0) =>
          LET h == exception_stack[Len(exception_stack)]
              cb == h.call_bottom
          IN /\ status' = "running"
             \* the frames above the handler's frame have no handler
             /\ \A j \in (cb + 1)..Len(call_stack) :
                   call_stack[j].exception_bottom = Len(exception_stack)
             /\ Len(call_stack') = cb
             /\ \A j \in 1..(cb - 1) : call_stack'[j] = call_stack[j]
             /\ call_stack'[cb].func = call_stack[cb].func
             /\ call_stack'[cb].ip = h.address
             /\ TopValue(data_stack') = TopValue(data_stack)
             /\ exception_stack' = SubSeq(exception_stack, 1, Len(exception_stack) - 1)

\* C9: a throw in a callee without a handler of its own goes to the youngest
\* installed handler of the nearest caller that has one: the frames above
\* that caller are dropped, the caller continues at the handler's address,
\* and the handler is removed by the delivery.
C9_ThrowToCaller == [][C9_Step]_vars

\* VmTest.Exceptions: the throw of fail has just been delivered to the inner
\* handler of main; the frame of fail is gone and the outer handler is left.
C9_Witness ==
    /\ prog = 2 /\ status = "running"
    /\ Len(call_stack) = 1 /\ call_stack[1].ip = 12
    /\ Len(exception_stack) = 1 /\ exception_stack[1].address = 100
    /\ TopValue(data_stack) = IntV(3)

\* The message a Send throws when nothing handles it.
Unhandled(msg) == StrV("Message '" \o msg \o "' could not be handled")

\* What sending msg to obj has to yield in the end, by the owned entries of
\* the class chain: [status, value].
SendResult(obj, msg) ==
    LET cls == class_of(objs, obj)
        o == Owner(cls, msg)
        nu == Owner(cls, "not_understood")
    IN IF o # 0
       THEN LET meth == methods[o][msg].value
            IN [status |-> "returned",
                value |-> IF meth.t = "cpp"
                          THEN Foreign(VmState, meth, << obj >>).value
                          \* base_foo returns its constant
                          ELSE protos[fns[meth.n].proto].constants[1]]
       ELSE IF nu # 0
       THEN LET handler == Foreign(VmState, methods[nu]["not_understood"].value,
                                   << obj >>).value
            IN [status |-> "returned",
                value |-> Foreign(VmState, handler, << StrV(msg) >>).value]
       ELSE [status |-> "thrown", value |-> Unhandled(msg)]

\* The programs that send one message: main of VmTest.Methods.
SendsOnce == Len(protos[main].code) = 4 /\ protos[main].code[3].op = "Send"

C10_Step ==
    /\ (About("Send") /\ Len(data_stack) >= 2 /\ TopValue(data_stack).t = "str") =>
          LET msg == TopValue(data_stack)
              obj == data_stack[Len(data_stack) - 1].value
              cls == class_of(objs, obj)
              o == Owner(cls, msg.s)
              nu == Owner(cls, "not_understood")
              depth == Len(data_stack)
          IN /\ status' = "running"
             /\ IF o # 0
                THEN LET meth == methods[o][msg.s].value
                     IN IF meth.t = "cpp"
                        \* the foreign method got the receiver
                        THEN /\ Len(data_stack') = depth - 1
                             /\ TopValue(data_stack') =
                                    Foreign(VmState, meth, << obj >>).value
                             /\ Len(call_stack') = Len(call_stack)
                        \* a frame of the method over the receiver alone
                        ELSE /\ Len(call_stack') = Len(call_stack) + 1
                             /\ TopFrame(VmState').func = meth.n
                             /\ TopFrame(VmState').ip = 0
                             /\ TopFrame(VmState').data_bottom = depth - 2
                             /\ Len(data_stack') = depth - 1
                             /\ TopValue(data_stack') = obj
                ELSE IF nu # 0
                \* the trampoline over not_understood, receiver, message
                THEN /\ Len(call_stack') = Len(call_stack) + 1
                     /\ TopFrame(VmState').func = SendFallbackFn
                     /\ TopFrame(VmState').data_bottom = depth - 2
                     /\ Len(data_stack') = depth + 1
                     /\ data_stack'[depth - 1].value =
                            methods[nu]["not_understood"].value
                     /\ data_stack'[depth].value = obj
                     /\ data_stack'[depth + 1].value = msg
                ELSE TopValue(data_stack') = Unhandled(msg.s)
    /\ (SendsOnce /\ ~Finished /\ Finished') =>
          LET cs == protos[main].constants
              r == SendResult(cs[1], cs[2].s)
          IN status' = r.status /\ result' = r.value

\* C10: Send looks the message up in the class of the receiver: a method
\* that is found, own or inherited, is called with the receiver as its only
\* argument; without one, not_understood of the class chain is called with
\* the receiver and its result with the message; without either a script
\* exception is thrown.
C10_SendResolves == [][C10_Step]_vars

\* VmTest.Methods: bar sent to right, whose class owns not_understood only,
\* came back from the handler that not_understood(right) returned.
C10_Witness ==
    /\ prog = 7 /\ status = "returned" /\ result = StrV("generated_bar")
    /\ Owner(RightCls, "bar") = 0 /\ Owner(RightCls, "not_understood") = RightCls
    /\ Owner(RightCls, "foo") = BaseCls

\* The error programs: their kind and whether main installed handlers.
IsErrorProg == prog > Len(Fixed) /\ prog <= Len(Assembled)
ErrorKind == ((prog - Len(Fixed) - 1) % Len(ErrorKinds)) + 1
ErrorHandled == prog <= Len(Fixed) + Len(ErrorKinds)

\* The value of the runtime script error that the instruction about to be
\* executed raises, by the operands on the data stack; NoneV when it raises
\* none.
RaisedError ==
    LET n == Len(data_stack)
        op == CurInstr.op
    IN IF ~(Stepping /\ InRange) \/ n = 0 THEN NoneV
       ELSE CASE op = "Call" ->
                    LET k == TopValue(data_stack)
                    IN IF k.t # "int" \/ k.n < 0 \/ n < k.n + 2 THEN NoneV
                       ELSE LET func == data_stack[n - 1 - k.n].value
                                args == [i \in 1..k.n |-> data_stack[n - 1 - k.n + i].value]
                            IN CASE func.t = "fn" ->
                                      IF protos[fns[func.n].proto].nargs # k.n
                                      THEN StrV("Wrong number of arguments")
                                      ELSE NoneV
                                 [] func.t = "cpp" ->
                                      IF CppNargs(func.s) # k.n
                                      THEN StrV("Wrong number of arguments")
                                      ELSE IF Foreign(VmState, func, args).ok THEN NoneV
                                      ELSE Foreign(VmState, func, args).value
                                 [] OTHER -> StrV("Can't call a non-function")
              [] op = "Send" ->
                    IF n < 2 \/ TopValue(data_stack).t # "str" THEN NoneV
                    ELSE LET msg == TopValue(data_stack).s
                             cls == class_of(objs, data_stack[n - 1].value)
                         IN IF Owner(cls, msg) = 0 /\ Owner(cls, "not_understood") = 0
                            THEN Unhandled(msg)
                            ELSE NoneV
              [] op = "GetProp" ->
                    IF n < 2 \/ TopValue(data_stack).t # "str" THEN NoneV
                    ELSE LET name == TopValue(data_stack).s
                             obj == data_stack[n - 1].value
                         IN IF obj.t = "obj" /\ name \in DOMAIN objs[obj.n].properties
                            THEN NoneV
                            ELSE StrV("Property '" \o name \o "' not found")
              [] op = "SetProp" ->
                    IF n < 3 \/ data_stack[n - 1].value.t # "str" THEN NoneV
                    ELSE IF data_stack[n - 2].value.t = "obj" THEN NoneV
                    ELSE StrV("Can't set property on a primitive value")
              [] op \in {"JumpIf", "JumpUnless"} ->
                    IF TopValue(data_stack).t = "bool" THEN NoneV
                    ELSE StrV("Expected bool in conditional")
              [] OTHER -> NoneV

C11_Step ==
    /\ (IsErrorProg /\ Finished') =>
          /\ result' = ErrorKinds[ErrorKind].error
          /\ status' = IF ErrorHandled THEN "returned" ELSE "thrown"
    /\ RaisedError # NoneV =>
        /\ status' = "running"
        /\ IF Len(exception_stack) = 0
           \* as an unhandled Throw: on its way to the host
           THEN /\ call_stack' = <<>>
                /\ exception_thrown'
                /\ Len(data_stack') = 1
                /\ data_stack'[1].value = RaisedError
           \* as a handled Throw: delivered to the youngest handler
           ELSE LET h == exception_stack[Len(exception_stack)]
                    cb == h.call_bottom
                IN /\ exception_stack' =
                          SubSeq(exception_stack, 1, Len(exception_stack) - 1)
                   /\ cb <= Len(call_stack)
                   /\ Len(call_stack') = cb
                   /\ \A j \in 1..(cb - 1) : call_stack'[j] = call_stack[j]
                   /\ call_stack'[cb].func = call_stack[cb].func
                   /\ call_stack'[cb].ip = h.address
                   /\ Len(data_stack') = h.data_bottom + 1
                   /\ TopValue(data_stack') = RaisedError
                   /\ \A j \in 1..h.data_bottom :
                         data_stack'[j].value = data_stack[j].value

\* C11: an instruction that raises a runtime script error (wrong number of
\* arguments, call of a non-function, message nobody handles, missing
\* property, property set on a primitive, condition that is not a Bool) or
\* calls a foreign function that throws behaves as Throw of the error value:
\* with a handler installed the youngest one is removed and gets the value
\* over the data it had when installed, in the frame that installed it, and
\* no frame is added for the failed call; without one every frame is dropped
\* and the value alone is left for the host.  A program that raises one such
\* error in a callee of main ends with it: returned by the handler of main
\* that caught it, or thrown to the host when main installed none.
C11_RuntimeErrorsThrow == [][C11_Step]_vars

\* The foreign function Int./ threw in the callee of main: its error is on
\* top of the temporary of main at the inner handler, the frame of the callee
\* is gone and the outer handler is left.
C11_Witness ==
    /\ IsErrorProg /\ ErrorHandled /\ ErrorKind = 9
    /\ status = "running" /\ Len(call_stack) = 1 /\ call_stack[1].ip = 8
    /\ Len(exception_stack) = 1 /\ exception_stack[1].address = 100
    /\ Len(data_stack) = 2 /\ TopValue(data_stack) = StrV("Division by zero")

(***************************************************************************)
(* Further claims about the collector.                                     *)
(***************************************************************************)

\* The cells the host holds a Ptr to: in a Root or in its own variable.
Held == (SeqRange(root_head) \cup {hptr}) \ {0}

C12_Step ==
    \* the header read by valid() is never freed memory
    /\ \A c \in Held : ~boxes[c].freed
    \* a collection leaves the cell of a Root valid
    /\ \A c \in SeqRange(root_head) \ {0} :
          (root_head' = root_head /\ boxes[c].valid) => boxes'[c].valid
    \* a dereference throws for an invalid Ptr and yields a live payload
    \* otherwise
    /\ deref'.outcome # "none" =>
          LET c == deref'.ptr
          IN IF PtrValid(boxes, c)
             THEN /\ deref'.outcome = "value"
                  /\ deref'.payload = boxes[c].edges
                  /\ ~boxes[c].freed
             ELSE deref'.outcome = "error"

\* C12: address, get, * and -> on a Ptr for which valid() is false (a null
\* Ptr, or a Ptr to a cell that a collection destroyed) throw and yield no
\* payload; on a valid Ptr they yield the payload of a cell that was not
\* destroyed.  The header of a cell the host still has a Ptr to is never
\* deleted, so valid() can be asked, and a collection leaves valid the cell a
\* Root points to.
C12_InvalidDerefThrows == [][C12_Step]_vars

\* The host has just dereferenced its Ptr to a cell that a collection
\* destroyed, and got the error.
C12_Witness ==
    /\ deref.outcome = "error" /\ deref.ptr # 0
    /\ deref.ptr = hptr /\ ~boxes[hptr].valid /\ boxes[hptr].ptrs > 0

(***************************************************************************)
(* Further claims about the compiler.                                      *)
(***************************************************************************)

\* The program was made by the compiler.
IsCompiled == prog > Len(Assembled) /\ prog <= Len(Assembled) + Len(Sources)

\* The instruction at address a of code is the Catch of a try: the handler
\* of the Catch of a defer is two instructions on.
TryCatchAt(code, a) == code[a + 1].op = "Catch" /\ code[a + 1].arg # a + 2

\* The addresses of the try Catch instructions that install handler h.
TriesOf(code, h) ==
    {a \in 0..(Len(code) - 1) : TryCatchAt(code, a) /\ code[a + 1].arg = h.address}

\* C13: while the handler of a try is on the exception stack, the function
\* that installed it is inside the body of that try (it runs there, or it
\* waits there for a callee): a break, continue or return that leaves the
\* body has removed the handler before control is outside, so nothing thrown
\* later reaches the catch clause.  At a Return no handler of the returning
\* function is left.
C13_TryHandlerScoped ==
    (IsCompiled /\ status = "running") =>
        /\ \A i \in 1..Len(exception_stack) :
              LET h == exception_stack[i]
                  f == call_stack[h.call_bottom]
              IN \A a \in TriesOf(protos[fns[f.func].proto].code, h) :
                    a < f.ip /\ f.ip < h.address
        /\ About("Return") =>
              Len(exception_stack) = TopFrame(VmState).exception_bottom

\* The jump of the continue is about to be taken inside the body of the try,
\* before the jump that ends the body, and the handler is gone.
C13_Witness ==
    /\ prog = CompiledProg(19) /\ About("Jump")
    /\ exception_stack = <<>>
    /\ \E a \in 0..(Len(Code) - 1) :
          /\ TryCatchAt(Code, a)
          /\ a < TopFrame(VmState).ip
          /\ TopFrame(VmState).ip < Code[a + 1].arg - 1

\* A loop body encloses the expression in the same function and inside
\* every defer body around the expression.
InLoop(ctx) ==
    \E i \in 1..Len(ctx) :
        /\ ctx[i] = "while"
        /\ \A j \in (i + 1)..Len(ctx) : ctx[j] \notin {"lambda", "defer"}

\* A defer body encloses the expression in the same function.
InDefer(ctx) ==
    \E i \in 1..Len(ctx) :
        /\ ctx[i] = "defer"
        /\ \A j \in (i + 1)..Len(ctx) : ctx[j] # "lambda"

\* C14: a source text with a break or continue is compiled when a loop body
\* encloses it in its own function with no defer body in between, and is
\* rejected with the loop-control error otherwise; a text with a return is
\* rejected with the return error when a defer body of the same function
\* encloses it and compiled otherwise, a return in a lambda inside a defer
\* body included.
C14_ControlStaysInside ==
    unit.state \in {"compiled", "rejected"} =>
        IF unit.leaf \in {"break", "continue"}
        THEN IF InLoop(unit.ctx)
             THEN unit.state = "compiled"
             ELSE /\ unit.state = "rejected"
                  /\ unit.error = "Break and continue can only be used inside of a loop"
        ELSE IF InDefer(unit.ctx)
             THEN unit.state = "rejected" /\ unit.error = "Can't return from a defer"
             ELSE unit.state = "compiled"

\* Rejected: a break in a defer body inside a loop.  (The loop is outside
\* the defer body.)
C14_Witness ==
    /\ unit.state = "rejected" /\ unit.leaf = "break"
    /\ unit.ctx = << "while", "defer", "block" >>

(***************************************************************************)
(* Further claims about compiled programs.                                 *)
(***************************************************************************)

\* C15: a name read in a lambda that does not define it is the variable of
\* the nearest enclosing function that defines it or declares it with a
\* later let, however many functions lie in between, and a call made after
\* that let ran reads the value it stored: the mutually recursive ping and
\* pong of CompilerTest.RecursiveFunctions yield 62, and the innermost
\* lambda of SrcNestedUpvalues reads the x of f (2), the y of main (40) and
\* the z of the block of f (90).
C15_UpvalueResolution ==
    /\ (prog = CompiledProg(22) /\ Finished) =>
          status = "returned" /\ result = IntV(62)
    /\ (prog = CompiledProg(23) /\ Finished) =>
          status = "returned" /\ result = IntV(132)

\* The innermost lambda of SrcNestedUpvalues has returned its sum.
C15_Witness ==
    prog = CompiledProg(23) /\ status = "returned" /\ result = IntV(132)

\* The programs with break and continue, and what they have to yield.
LoopProgs ==
    { CompiledProg(24), CompiledProg(25), CompiledProg(26), CompiledProg(27),
      CompiledProg(37) }
LoopResult ==
    CASE prog = CompiledProg(24) -> IntV(33)
      [] prog = CompiledProg(25) -> IntV(33)
      [] prog = CompiledProg(26) -> IntV(2)
      [] prog = CompiledProg(27) -> IntV(5)
      [] prog = CompiledProg(37) -> IntV(1)
      [] OTHER -> NilV

\* The statement At(d) has just put its value on the stack: the function
\* has d values below it.
DepthAsCompiled ==
    (/\ status = "running" /\ Len(call_stack) > 0 /\ Len(data_stack) > 0
     /\ TopValue(data_stack).t = "int" /\ TopValue(data_stack).n >= DepthBase) =>
        Len(data_stack) - 1 - call_stack[Len(call_stack)].data_bottom
            = TopValue(data_stack).n - DepthBase

\* C16: break ends the nearest enclosing loop only and continue goes to the
\* condition of the nearest enclosing loop, and the stack of the function
\* is as deep after the jump as the compiler counts it there: the loop
\* programs never stop by a fault of the VM, every statement At(d) finds d
\* values below its own, and the run yields the value of the source text.
C16_LoopControlDepth ==
    prog \in LoopProgs =>
        /\ status # "abort"
        /\ DepthAsCompiled
        /\ Finished => status = "returned" /\ result = LoopResult

\* SrcLoopDepth has returned: its condition ran three times and the
\* statement after the loop once, two continues and the break behind them.
C16_Witness ==
    /\ prog = CompiledProg(25) /\ status = "returned" /\ result = IntV(33)
    /\ log = << DepthBase + 8, DepthBase + 8, DepthBase + 8, DepthBase + 8 >>

\* The programs of SrcShortCircuit: whether the operator is && and whether
\* the lhs is true.
ShortProgs == { CompiledProg(28), CompiledProg(29), CompiledProg(30), CompiledProg(31) }
ShortAnd == prog \in { CompiledProg(28), CompiledProg(29) }
ShortLhs == prog \in { CompiledProg(28), CompiledProg(30) }

\* C17: the rhs of a && b is evaluated exactly when a is true and the rhs of
\* a || b exactly when a is false; the value of the expression is the value
\* of the rhs when the rhs was evaluated and the value of a otherwise.  The
\* rhs of SrcShortCircuit leaves DepthBase + 8 in the log when it runs;
\* CompilerTest.ShortCircuitLogic yields true without throwing.
C17_ShortCircuit ==
    /\ prog \in ShortProgs =>
          /\ status # "abort"
          /\ DepthAsCompiled
          /\ (ShortAnd # ShortLhs) => (\A i \in 1..Len(log) : log[i] # DepthBase + 8)
          /\ Finished =>
                /\ status = "returned"
                /\ IF ShortAnd = ShortLhs
                   THEN result = IntV(7) /\ log = << DepthBase + 8, DepthBase + 7 >>
                   ELSE result = BoolV(ShortLhs) /\ log = << DepthBase + 7 >>
    /\ (prog = CompiledProg(3) /\ Finished) =>
          status = "returned" /\ result = BoolV(TRUE)

\* false && b has returned false without evaluating b.
C17_Witness ==
    /\ prog = CompiledProg(29) /\ status = "returned"
    /\ result = BoolV(FALSE) /\ log = << DepthBase + 7 >>

(***************************************************************************)
(* Claims about the builtins.                                              *)
(***************************************************************************)

\* The mathematical result of a call.
Exact(op, x, y) ==
    CASE op = "~" -> -x
      [] op = "+" -> x + y
      [] op = "-" -> x - y
      [] op = "*" -> x * y
      [] op = "/" -> IF y = 0 THEN 0 ELSE cpp_div(x, y)

\* C18: a call of Int +, -, *, / or ~ throws a script error when the
\* divisor is zero or the mathematical result is not an int64_t, and
\* returns the mathematical result otherwise; it never returns another
\* value and never ends otherwise.
C18_IntTraps ==
    calc.kind \notin {"none", "input"} =>
        IF (calc.op = "/" /\ calc.y = 0) \/ Exact(calc.op, calc.x, calc.y) \notin Ints
        THEN calc.kind = "throw"
        ELSE calc.kind = "value" /\ calc.n = Exact(calc.op, calc.x, calc.y)

(***************************************************************************)
(* The treshold of the collector.                                          *)
(***************************************************************************)

\* A step of Collector::alloc: the cells it made.
Allocated == Len(boxes') - Len(boxes)

\* Collector::alloc collects before it allocates exactly when allocations
\* has reached treshold; without a collection no cell is destroyed and the
\* treshold stays.
CollectsAtTreshold ==
    Allocated > 0 =>
        /\ collected' = (allocations >= treshold)
        /\ allocations < treshold =>
              /\ treshold' = treshold
              /\ allocations' = allocations + Allocated
              /\ \A c \in 1..Len(boxes) : boxes'[c].valid = boxes[c].valid

C19_Step ==
    /\ CollectsAtTreshold
    /\ (Allocated > 0 /\ allocations >= treshold) =>
          treshold' = Max(2 * (allocations' - Allocated), MinTreshold)
    /\ treshold' >= MinTreshold

C19_OriginalStep ==
    /\ CollectsAtTreshold
    /\ (Allocated > 0 /\ allocations >= treshold) => treshold' = 2 * treshold
    /\ treshold' >= MinTreshold

Meta(k) == context.cells[k].klass
BaseOf(k) == context.cells[k].base
Booted == context.stage \in {"constructed", "loaded"}

\* The classes of the values that are not objects.
Primitives ==
    { context.cls.nil_cls, context.cls.bool_cls, context.cls.int_cls,
      context.cls.string_cls, context.cls.function_cls }
    \cup (IF context.stage = "loaded" THEN { context.cls.array_cls } ELSE {})

\* Class is its own class and derives from Object, which has no base;
\* every primitive class is there and derives from Object.
ClassAndPrimitives ==
    /\ Meta(context.cls.class_cls) = context.cls.class_cls
    /\ BaseOf(context.cls.class_cls) = context.cls.object_cls
    /\ BaseOf(context.cls.object_cls) = 0
    /\ \A p \in Primitives : p # 0 /\ BaseOf(p) = context.cls.object_cls

\* C20 (amended): after bootstrap the class of Object is a class of its own
\* whose class and base are both Class, Class.meta = Class and Class.base =
\* Object, and every primitive class has Object as its base; making
\* subclasses changes none of this.
C20_BootstrapGraph ==
    Booted =>
        /\ Meta(context.cls.object_cls) \notin {0, context.cls.class_cls}
        /\ Meta(Meta(context.cls.object_cls)) = context.cls.class_cls
        /\ BaseOf(Meta(context.cls.object_cls)) = context.cls.class_cls
        /\ ClassAndPrimitives

\* C20 as stated: after bootstrap Object.meta = Class, Class.meta = Class
\* and Class.base = Object, and every primitive class has Object as its
\* base.
C20_ObjectMetaIsClass ==
    Booted =>
        /\ Meta(context.cls.object_cls) = context.cls.class_cls
        /\ ClassAndPrimitives

\* load_builtins has made the classes anew, Array among them, and a
\* subclass was added.
C20_Witness ==
    /\ context.stage = "loaded" /\ Subclasses > 0
    /\ BaseOf(context.cls.array_cls) = context.cls.object_cls
    /\ Meta(context.cls.object_cls) # context.cls.class_cls

(***************************************************************************)
(* Claims about string literals.                                           *)
(***************************************************************************)

\* C21: unquote_string(quote_string(s)) returns s, for every byte string s
\* and whether char is signed or not.
C21_UnquoteInvertsQuote ==
    text.stage = "unquoted" => text.back = Some(text.s)

\* The round trip of a string that needs an escape of each kind: a control
\* character written in hex, a quote and a newline.
C21_Witness ==
    /\ text.stage = "unquoted"
    /\ text.s = << 0, DQuote, 10 >>
    /\ text.quoted = << DQuote, Backslash, LetterX, 48, 48, Backslash, DQuote,
                        Backslash, 110, DQuote >>
    /\ text.back = Some(text.s)

(***************************************************************************)
(* Claims about the mark and the sweep phase.                              *)
(***************************************************************************)

\* The marks the mark phase of a collection run now would leave.
Marks == collect_mark(boxes, root_head)

OnList(c) == c \in SeqRange(box_head)

\* This step ran a collection: gc.collect() or an alloc that collected.
Collecting == collected' /\ deref' = NoDeref

C22_Step ==
    Collecting =>
        \* every valid cell a registered root holds is marked
        /\ \A c \in SeqRange(root_head) \ {0} : boxes[c].valid => Marks[c].marked
        \* nothing else seeds the worklist: a cell newly marked is reached
        \* from a root
        /\ \A c \in 1..Len(boxes) :
              (Marks[c].marked /\ ~boxes[c].marked) => c \in RootReach
        \* a cell of the list that no root reaches is destroyed, the Ptr
        \* values to it notwithstanding, and its header is kept for them
        /\ \A c \in 1..Len(boxes) :
              (OnList(c) /\ ~boxes[c].marked /\ c \notin RootReach) =>
                  /\ ~Marks[c].marked
                  /\ ~boxes'[c].valid
                  /\ boxes'[c].ptrs > 0 => (~boxes'[c].freed /\ c \in SeqRange(box_head'))

C22_OriginalStep ==
    Collecting =>
        \A c \in 1..Len(boxes) :
            (boxes[c].valid /\ boxes[c].ptrs > 0) =>
                (Marks[c].marked /\ boxes'[c].valid)

Occurrences(ps, c) == Cardinality({i \in 1..Len(ps) : ps[i] = c})

Referring(c) ==
    Occurrences(root_head, c) + (IF hptr = c THEN 1 ELSE 0)
        + Cardinality({p \in UNION {{a} \X (1..Len(boxes[a].edges)) : a \in 1..Len(boxes)} :
                          boxes[p[1]].edges[p[2]] = c})

\* No Ptr refers to a freed header, and ptrs counts the Ptr values of a
\* header.
NoDanglingPtr ==
    \A c \in 1..Len(boxes) :
        /\ boxes[c].freed => Referring(c) = 0
        /\ boxes[c].ptrs = Referring(c)

C23_Step ==
    /\ Collecting =>
          LET marks == Marks
          IN \A c \in 1..Len(boxes) :
                (OnList(c) /\ ~boxes[c].freed /\ ~marks[c].marked) =>
                    /\ ~boxes'[c].valid
                    /\ boxes'[c].freed => boxes'[c].ptrs = 0
                    /\ boxes'[c].ptrs > 0 =>
                          (~boxes'[c].freed /\ c \in SeqRange(box_head'))
                    /\ boxes'[c].freed => c \notin SeqRange(box_head')
    /\ \A c \in 1..Len(boxes) : boxes'[c].freed => (boxes[c].freed \/ Collecting)
    /\ NoDanglingPtr'

\* C23: the sweep frees the header of an unmarked cell only when its Ptr
\* count is zero, and otherwise keeps it on the cell list with valid =
\* false; so after any sequence of alloc, collect and Ptr copies,
\* assignments and destructions no existing Ptr refers to a freed header.
C23_HeaderOutlivesHandles == [][C23_Step]_vars

\* One collection has freed the header of a cell nothing referred to and
\* has kept the header of a destroyed cell the host's Ptr refers to.
C23_Witness ==
    /\ collected
    /\ \E c \in 1..Len(boxes) : boxes[c].freed /\ boxes[c].ptrs = 0
    /\ hptr # 0 /\ ~boxes[hptr].valid /\ ~boxes[hptr].freed
    /\ boxes[hptr].ptrs > 0 /\ hptr \in SeqRange(box_head)
    /\ root_head = <<>>

(***************************************************************************)
(* Claims about the frames of the virtual machine.                         *)
(***************************************************************************)

C24_Step ==
    (About("Throw") /\ Len(exception_stack) > 0 /\ Len(data_stack) > 0) =>
        LET n == Len(exception_stack)
            h == exception_stack[n]
        IN /\ status' = "running"
           \* exactly the topmost handler is popped
           /\ exception_stack' = SubSeq(exception_stack, 1, n - 1)
           \* the data stack is cut to the recorded depth, the thrown value
           \* is pushed
           /\ Len(data_stack) > h.data_bottom
           /\ Len(data_stack') = h.data_bottom + 1
           /\ \A j \in 1..h.data_bottom : data_stack'[j] = data_stack[j]
           /\ TopValue(data_stack') = TopValue(data_stack)
           \* the call stack is cut to the recorded depth and its top frame
           \* continues at the handler
           /\ Len(call_stack') = h.call_bottom
           /\ \A j \in 1..(h.call_bottom - 1) : call_stack'[j] = call_stack[j]
           /\ call_stack'[h.call_bottom] =
                 [call_stack[h.call_bottom] EXCEPT !.ip = h.address]

\* C24: a Throw executed with a non-empty exception stack pops exactly the
\* topmost handler, cuts the data stack to the depth the handler recorded
\* and pushes the thrown value, cuts the call stack to the recorded depth
\* and sets the ip of the frame then on top to the handler's address; the
\* handlers below stay as they are.
C24_ThrowUnwindsToHandler == [][C24_Step]_vars

\* CompilerTest.TryCatch: the throw of x has just been delivered to the
\* inner handler; the local x is cut off the stack, the thrown 2 is on top
\* and the outer handler is left.
C24_Witness ==
    /\ prog = CompiledProg(32) /\ status = "running"
    /\ exception_stack = << [data_bottom |-> 6, call_bottom |-> 1, address |-> 41] >>
    /\ Len(call_stack) = 1 /\ call_stack[1].ip = 27
    /\ Len(data_stack) = 7 /\ TopValue(data_stack) = IntV(2)

\* The Call about to run calls a script function with the number of
\* arguments it takes: the count is on top, the arguments below it, the
\* function below them.
CallArgs == TopValue(data_stack).n
CallsScript ==
    /\ About("Call") /\ Len(data_stack) > 0
    /\ TopValue(data_stack).t = "int" /\ CallArgs >= 0
    /\ Len(data_stack) >= CallArgs + 2
    /\ LET func == data_stack[Len(data_stack) - CallArgs - 1].value
       IN func.t = "fn" /\ protos[fns[func.n].proto].nargs = CallArgs

C25_Step ==
    \* the call removes the function and the count, its frame begins at the
    \* first argument
    /\ CallsScript =>
          LET n == CallArgs
              k == Len(data_stack) - n - 2
          IN /\ status' = "running"
             /\ Len(data_stack') = k + n
             /\ \A j \in 1..k : data_stack'[j] = data_stack[j]
             /\ \A j \in 1..n : data_stack'[k + j].value = data_stack[k + 1 + j].value
             /\ call_stack' = Append(
                   [call_stack EXCEPT ![Len(call_stack)].ip = @ + 1],
                   [func |-> data_stack[k + 1].value.n, ip |-> 0,
                    data_bottom |-> k,
                    exception_bottom |-> Len(exception_stack)])
             /\ exception_stack' = exception_stack
    \* the return leaves the result where the frame began, and the handlers
    \* that were there when it began
    /\ (About("Return") /\ Len(data_stack) > TopFrame(VmState).data_bottom) =>
          LET frame == TopFrame(VmState)
          IN /\ status' = "running"
             /\ Len(data_stack') = frame.data_bottom + 1
             /\ \A j \in 1..frame.data_bottom : data_stack'[j] = data_stack[j]
             /\ TopValue(data_stack') = TopValue(data_stack)
             /\ Len(exception_stack) >= frame.exception_bottom
             /\ exception_stack' = SubSeq(exception_stack, 1, frame.exception_bottom)
             /\ call_stack' = SubSeq(call_stack, 1, Len(call_stack) - 1)
    \* a frame keeps its bottoms for as long as it is on the call stack
    /\ (Stepping /\ status' = "running") =>
          \A j \in 1..Len(call_stack') :
              j <= Len(call_stack) =>
                  /\ call_stack'[j].func = call_stack[j].func
                  /\ call_stack'[j].data_bottom = call_stack[j].data_bottom
                  /\ call_stack'[j].exception_bottom = call_stack[j].exception_bottom

\* C25: the call of a script function with n arguments and its Return
\* replace the function slot, the n arguments and the count by exactly one
\* result, leave the slots of the caller below them as they are, and
\* discard every handler installed while the returning frame ran.
C25_CallReturnEffect == [][C25_Step]_vars

\* The inner handler of main in an error program has caught the error of
\* the callee and returned it: the Return has left the caught value as the
\* only slot and has discarded the outer handler, still installed.
C25_Witness ==
    /\ prog = Len(Fixed) + 1 /\ status = "running"
    /\ call_stack = <<>> /\ exception_stack = <<>>
    /\ Len(data_stack) = 1
    /\ TopValue(data_stack) = ErrorKinds[1].error
    /\ Thrown = <<>>

(***************************************************************************)
(* Claims about upvalues and closures.                                     *)
(***************************************************************************)

\* Where the slot that was pushed with history id i is on the stack.
Position(stack, i) == CHOOSE j \in 1..Len(stack) : stack[j].id = i

\* Each open upvalue holds an index inside the data stack, and the slot
\* there refers back to it.
OpenUpvaluesOnStack ==
    \A u \in 1..Len(ups) :
        ups[u].open =>
            /\ ups[u].idx < Len(data_stack)
            /\ data_stack[ups[u].idx + 1].upvalue = u

C26_Step ==
    /\ OpenUpvaluesOnStack'
    \* an upvalue stays open, at the index its slot has moved to, while the
    \* slot is on the stack, and is closed when the slot is removed
    /\ \A u \in 1..Len(ups) :
          ups[u].open =>
              /\ Position(data_stack, ups[u].origin) = ups[u].idx + 1
              /\ IF OnStack(data_stack', ups[u].origin)
                 THEN /\ ups'[u].open
                      /\ ups'[u].idx + 1 = Position(data_stack', ups[u].origin)
                 ELSE ~ups'[u].open
    \* Nip moves the top slot down by one
    /\ (About("Nip") /\ Len(data_stack) >= 2) =>
          LET u == data_stack[Len(data_stack)].upvalue
          IN u # 0 => (ups'[u].open /\ ups'[u].idx = ups[u].idx - 1)
    \* Call removes the function slot: the arguments move down by one
    /\ CallsScript =>
          \A j \in (Len(data_stack) - CallArgs)..(Len(data_stack) - 1) :
              LET u == data_stack[j].upvalue
              IN u # 0 => (ups'[u].open /\ ups'[u].idx = ups[u].idx - 1)

IsCapture(instr) == instr.op \in {"MakeUp", "CopyUp"}

\* The number of MakeUp and CopyUp instructions that stand right before
\* address a in code.
RECURSIVE CapturesBefore(_, _)
CapturesBefore(code, a) ==
    IF a > 0 /\ IsCapture(code[a]) THEN 1 + CapturesBefore(code, a - 1) ELSE 0

\* The upvalue indices the code of a function uses.
UsedUpvalues(code) ==
    {code[i].arg : i \in {j \in 1..Len(code) : code[j].op \in {"GetUp", "SetUp", "CopyUp"}}}

\* The Function cells of the constant pools: the cells the program starts
\* with.
InPool(f) == f <= Len(protos)

C27_Step ==
    \* ResetUp replaces the function on top by a new Function of the same
    \* proto without upvalues
    /\ (About("ResetUp") /\ status' = "running") =>
          LET f == TopValue(data_stack).n
              f2 == Len(fns) + 1
          IN /\ fns' = Append(fns, [proto |-> fns[f].proto, upvalues |-> <<>>])
             /\ TopValue(data_stack') = FnV(f2)
             /\ Len(data_stack') = Len(data_stack)
    \* MakeUp and CopyUp follow the ResetUp of the closure on top and
    \* append to its list, which has one entry for each of them so far
    /\ ((About("MakeUp") \/ About("CopyUp")) /\ status' = "running") =>
          LET frame == TopFrame(VmState)
              a == frame.ip
              j == CapturesBefore(Code, a)
              f == TopValue(data_stack).n
              u == IF CurInstr.op = "MakeUp"
                   THEN data_stack'[frame.data_bottom + CurInstr.arg + 1].upvalue
                   ELSE fns[frame.func].upvalues[CurInstr.arg + 1]
          IN /\ a - j >= 1 /\ Code[a - j].op = "ResetUp"
             /\ ~InPool(f)
             /\ Len(fns[f].upvalues) = j
             /\ u # 0
             /\ fns' = [fns EXCEPT ![f].upvalues = Append(@, u)]
    \* nothing else changes a Function
    /\ (Stepping /\ InRange /\ CurInstr.op \notin {"ResetUp", "MakeUp", "CopyUp"}) =>
          fns' = fns
    \* the Functions of the constant pools have no upvalues
    /\ \A f \in 1..Len(fns') : InPool(f) => fns'[f].upvalues = <<>>
    \* the closure that runs has the upvalues its code refers to
    /\ (Stepping /\ InRange) =>
          LET n == Len(fns[TopFrame(VmState).func].upvalues)
          IN /\ \A i \in UsedUpvalues(Code) : i < n
             /\ IsCompiled => UsedUpvalues(Code) = 0..(n - 1)

\* C27: each evaluation of a lambda yields a new closure whose upvalue
\* list has exactly one entry for each MakeUp and CopyUp emitted after its
\* ResetUp, in their order; the Function in the constant pool keeps an
\* empty list.
C27_FreshClosures == [][C27_Step]_vars

\* SrcFreshClosures has returned 6: the lambda of make was evaluated twice,
\* the two closures have three upvalues each and differ in the one of x.
C27_Witness ==
    /\ prog = CompiledProg(33) /\ status = "returned" /\ result = IntV(6)
    /\ \E f, g \in 1..Len(fns) :
          /\ f # g /\ fns[f].proto = fns[g].proto
          /\ Len(fns[f].upvalues) = 3 /\ Len(fns[g].upvalues) = 3
          /\ fns[f].upvalues[1] = fns[g].upvalues[1]
          /\ fns[f].upvalues[2] # fns[g].upvalues[2]
          /\ fns[f].upvalues[3] = fns[g].upvalues[3]
          /\ fns[fns[f].proto].upvalues = <<>>

(***************************************************************************)
(* Claims about the locals of compiled code.                               *)
(***************************************************************************)

\* The programs that declare locals inside blocks and operands, and what
\* the source text of each has to yield.
DepthProgs == { CompiledProg(34), CompiledProg(35), CompiledProg(36) }
DepthOutcome ==
    CASE prog = CompiledProg(34) -> [status |-> "returned", value |-> IntV(42)]
      [] prog = CompiledProg(35) -> [status |-> "returned", value |-> IntV(74)]
      [] prog = CompiledProg(36) ->
            [status |-> "thrown",
             value |-> StrV("Can't set property on a primitive value")]
      [] OTHER -> [status |-> "idle", value |-> NilV]

\* C28: the depth the compiler counts at an instruction is the depth of the
\* data stack above the bottom of the frame when the instruction runs, so
\* that the index of a GetVar, SetVar or MakeUp is that of the slot of the
\* local the source names, also for locals declared in a sub-expression
\* while the callee and arguments of a call, or the receiver and name of a
\* property assignment, are on the stack: the programs never stop by a
\* fault of the VM, every statement At(d) finds d values below its own, and
\* each run ends as its source text says.
C28_StackSimulation ==
    prog \in DepthProgs =>
        /\ status # "abort"
        /\ DepthAsCompiled
        /\ Finished =>
              (status = DepthOutcome.status /\ result = DepthOutcome.value)

\* The programs of SrcShadowing and SrcShadowLambda.
ShadowProgs == { CompiledProg(38), CompiledProg(39) }

\* What each let, reference and assignment of SrcShadowing sees when every
\* let has its own slot, a reference sees the latest binding made before it
\* and the inner assignment leaves the outer x alone:
\* f() = 1, a = 1, b = 11, r = 11 + 32, x = 11, g(5) = 5 + 6.
ShadowingResult == IntV(1 + 1 + 11 + (11 + 32) + 11 + (5 + 6))

\* C29: several let of one name get a slot each; the initializer of a let
\* and the direct references before it see the previous binding, the
\* references after it see the new slot, and an assignment to the x of an
\* inner block leaves the outer x alone.  A reference inside a lambda that
\* is compiled before the let of its enclosing block has run is bound to the
\* slot of that pending let, whatever an outer block defines: f() of
\* SrcShadowLambda yields 20 and y yields 1.
C29_Shadowing ==
    prog \in ShadowProgs =>
        /\ status # "abort"
        /\ Finished =>
              /\ status = "returned"
              /\ prog = CompiledProg(38) => result = ShadowingResult
              /\ prog = CompiledProg(39) => result = IntV(20 + 1)

\* C29 as stated: every reference before the let sees the previous binding,
\* so that f() of SrcShadowLambda yields the outer 1 as y does.
C29_ShadowingAsStated ==
    prog \in ShadowProgs =>
        /\ status # "abort"
        /\ Finished =>
              /\ status = "returned"
              /\ prog = CompiledProg(38) => result = ShadowingResult
              /\ prog = CompiledProg(39) => result = IntV(1 + 1)

\* SrcShadowing has returned: the lets, the block and the lambda ran.
C29_Witness ==
    /\ prog = CompiledProg(38) /\ status = "returned"
    /\ result = ShadowingResult /\ data_stack = <<>>

(***************************************************************************)
(* Claims about the removal of methods.                                    *)
(***************************************************************************)

\* C30: a step of cls->remove(name) on a class that has no entry for name or
\* only a cached inherited one returns nothing and leaves every method table
\* and every validity token as it was; on a class that owns name it returns
\* the owned value, erases the entry of that class under that name and no
\* other entry of any class, and changes no token but the one of the erased
\* entry, which becomes invalid.
C30_Step ==
    ret'.op = "remove" =>
        LET k == ret'.klass
            name == ret'.name
            e == methods[k][name]
        IN IF e.has /\ e.own
           THEN /\ ret'.found /\ ret'.value = e.value
                /\ ~methods'[k][name].has
                /\ \A c \in 1..NClasses : \A n \in Names :
                      (c # k \/ n # name) => methods'[c][n] = methods[c][n]
                /\ Len(tokens') = Len(tokens)
                /\ ~tokens'[e.valid]
                /\ \A t \in 1..Len(tokens) : t # e.valid => tokens'[t] = tokens[t]
           ELSE /\ ~ret'.found
                /\ methods' = methods
                /\ tokens' = tokens

C30_RemoveOwnedOnly == [][C30_Step]_vars

\* remove on a class that holds a cached inherited entry under the name has
\* returned nothing: the cached entry is still in its table and its token
\* is still valid, and the class it came from still owns the method.
C30_Witness ==
    /\ ret.op = "remove" /\ ~ret.found
    /\ methods[ret.klass][ret.name].has
    /\ ~methods[ret.klass][ret.name].own
    /\ tokens[methods[ret.klass][ret.name].valid]
    /\ Owner(ret.klass, ret.name) \notin {0, ret.klass}

(***************************************************************************)
(* Claims about the cached entries of the method tables.                   *)
(***************************************************************************)

\* Class k and the classes of its base chain.
RECURSIVE Ancestors(_)
Ancestors(k) == IF k = 0 THEN {} ELSE {k} \cup Ancestors(base(k))

\* The entry of class k under name is a cached (inherited) one.
Cached(k, name) == methods[k][name].has /\ ~methods[k][name].own

\* The classes from k up its base chain as far as lookup_rec descends: to the
\* class before the nearest owner, or to the root when there is no owner.
Searched(k, name) ==
    LET o == Owner(k, name)
    IN { c \in Ancestors(k) : o = 0 \/ o \in Ancestors(base(c)) }

\* C31 as stated: every cached entry of every class carries a live token.
C31_CachedEntriesLive ==
    \A k \in 1..NClasses : \A name \in Names :
        Cached(k, name) => tokens[methods[k][name].valid]

\* C31: a cached entry whose token is live carries the value and the token
\* of the nearest class above it that owns the name; a cached entry whose
\* token was flipped by define or remove may stay in its table until a
\* lookup through its class purges it, and right after a lookup every
\* cached entry of the classes the lookup went through is live.
C31_LiveCacheAgrees ==
    /\ \A k \in 1..NClasses : \A name \in Names :
          (Cached(k, name) /\ tokens[methods[k][name].valid]) =>
              LET o == Owner(base(k), name)
              IN /\ o # 0
                 /\ methods[k][name].valid = methods[o][name].valid
                 /\ methods[k][name].value = methods[o][name].value
    /\ ret.op = "lookup" =>
          \A c \in Searched(ret.klass, ret.name) :
              /\ Cached(c, ret.name) <=> ret.found
              /\ Cached(c, ret.name) => tokens[methods[c][ret.name].valid]

\* A lookup on the root class has found nothing while a subclass still
\* holds a cached entry with a flipped token, and some other token is live.
C31_Witness ==
    /\ ret.op = "lookup" /\ ~ret.found
    /\ \E k \in 1..NClasses :
          Cached(k, ret.name) /\ ~tokens[methods[k][ret.name].valid]
    /\ \E t \in 1..Len(tokens) : tokens[t]

\* The entry of class k under name is an owned one.
Owned(k, name) == methods[k][name].has /\ methods[k][name].own

\* C40: a step of cls->lookup(name) leaves every owned entry of every class
\* and every validity token as it was and makes no entry owned; an entry it
\* changes is the entry under name of a class between the receiver and the
\* owning class, and the change is either the insertion of a cached entry
\* that carries the owner's value and token, over nothing or over an
\* invalidated cached entry, or the erasure of an invalidated cached entry;
\* a lookup that finds nothing leaves no entry where there was none.
C40_Step ==
    ret'.op = "lookup" =>
        LET k == ret'.klass
            name == ret'.name
            o == Owner(k, name)
        IN /\ tokens' = tokens
           /\ \A c \in 1..NClasses : \A n \in Names :
                 LET old == methods[c][n]
                     new == methods'[c][n]
                 IN /\ Owned(c, n) => new = old
                    /\ (new.has /\ new.own) => new = old
                    /\ new # old =>
                          /\ n = name /\ c \in Searched(k, name)
                          /\ old.has => ~tokens[old.valid]
                          /\ IF ret'.found
                             THEN new = MethodEntry(methods[o][name].value, FALSE,
                                                    methods[o][name].valid)
                             ELSE new = NoEntry
                    /\ (~ret'.found /\ new.has) => old.has

C40_LookupOnlyCaches == [][C40_Step]_vars

\* A lookup on the most derived class has found the method of the root
\* class: the classes in between hold cached entries with the root's token,
\* and an earlier token is invalid.
C40_Witness ==
    /\ ret.op = "lookup" /\ ret.found /\ ret.klass = 3
    /\ Owner(3, ret.name) = 1
    /\ \A c \in {2, 3} :
          /\ Cached(c, ret.name)
          /\ methods[c][ret.name].valid = methods[1][ret.name].valid
    /\ \E t \in 1..Len(tokens) : ~tokens[t]

(***************************************************************************)
(* Claims about the lists and the flags of the collector.                  *)
(***************************************************************************)

\* C34: every cell that was allocated and whose header has not been freed
\* is on the collector's cell list, the cells allocated by the payload
\* constructor of another cell included.
C34_AllocatedOnList ==
    \A c \in 1..Len(boxes) : ~boxes[c].freed => OnList(c)

\* C37: outside of Collector::collect no cell has its mark flag set: every
\* collection has cleared the flag of every cell it marked.
C37_NoMarkBetweenCollections ==
    \A c \in 1..Len(boxes) : ~boxes[c].freed => ~boxes[c].marked

\* No root reaches cell c and no Ptr to it exists outside the payloads of
\* cells that no root reaches.
Unreachable(c) ==
    /\ c \notin RootReach
    /\ c # hptr
    /\ \A a \in 1..Len(boxes) :
          c \in SeqRange(boxes[a].edges) => a \notin RootReach

\* The header of cell c is all that is left of it and nothing refers to it.
Leftover(c) == ~boxes[c].freed /\ ~boxes[c].valid /\ boxes[c].ptrs = 0

\* The headers a step frees.
Freed == { c \in 1..Len(boxes) : ~boxes[c].freed /\ boxes'[c].freed }

\* C38: a collection either frees the header of an unreachable cell or
\* leaves it destroyed with no Ptr to it (when the cells that held the last
\* Ptr to it came later on the list); no step other than a collection
\* changes such a leftover header, and the next collection frees it; the
\* allocation counter goes down by one for every header freed.  So the
\* header of an unreachable cell is freed by the second collection at the
\* latest.
C38_Step ==
    /\ Collecting =>
          /\ \A c \in 1..Len(boxes) :
                /\ (Unreachable(c) /\ ~boxes[c].freed) =>
                      \/ boxes'[c].freed
                      \/ ~boxes'[c].valid /\ boxes'[c].ptrs = 0
                /\ Leftover(c) => boxes'[c].freed
          /\ allocations' =
                allocations + (Len(boxes') - Len(boxes)) - Cardinality(Freed)
    /\ ~Collecting =>
          \A c \in 1..Len(boxes) : Leftover(c) => boxes'[c] = boxes[c]

C38_FreedBySecondCollection == [][C38_Step]_vars

(***************************************************************************)
(* Claims about the list of roots.                                         *)
(***************************************************************************)

\* The Root objects the loop of the mark phase visits: from root_head along
\* next, at most fuel objects.
RECURSIVE Walk(_, _)
Walk(r, fuel) ==
    IF r = 0 \/ fuel = 0 THEN <<>>
    ELSE <<r>> \o Walk(rootlist.nodes[r].next, fuel - 1)

\* The Root objects alive.
AliveRoots == { r \in 1..MaxRootObjs : rootlist.nodes[r].alive }

\* C39: after any sequence of constructions, copies, assignments and
\* destructions of Roots, the walk from root_head along next ends, meets
\* every Root alive exactly once and nothing else, the head has no prev and
\* the prev of every other Root on the list is the Root before it.
C39_RootListExact ==
    LET walk == Walk(rootlist.head, MaxRootObjs + 1)
    IN /\ Len(walk) = Cardinality(AliveRoots)
       /\ SeqRange(walk) = AliveRoots
       /\ rootlist.head # 0 => rootlist.nodes[rootlist.head].prev = 0
       /\ \A i \in 1..Len(walk) :
             /\ i > 1 => rootlist.nodes[walk[i]].prev = walk[i - 1]
             /\ i = Len(walk) => rootlist.nodes[walk[i]].next = 0

\* The Root at address 2 was destroyed while it stood between the Roots at
\* 3 and 1 (its fields still say so), and these two are linked to each
\* other.
C39_Witness ==
    /\ AliveRoots = {1, 3}
    /\ rootlist.head = 3
    /\ rootlist.nodes[3].next = 1 /\ rootlist.nodes[1].prev = 3
    /\ rootlist.nodes[2].prev = 3 /\ rootlist.nodes[2].next = 1
    /\ rootlist.nodes[1].inner # rootlist.nodes[3].inner

(***************************************************************************)
(* Claims about the replay of defer bodies.                                *)
(***************************************************************************)

\* SrcDeferLocal, SrcDeferLocalThrow and SrcDeferLocalFall: one defer body
\* that assigns the local x of the enclosing function, left by a break at
\* the start of a statement, by a throw, and by the end of the block.
DeferLocalProgs == { CompiledProg(12), CompiledProg(40), CompiledProg(41) }

\* C32: the defer body replayed at a break, and at the end of its block,
\* has the effect of the copy that runs as exception handler: it runs once
\* and its SetVar stores into x, so that each of these programs yields 1.
C32_ReplayAddressesSameLocals ==
    prog \in DeferLocalProgs =>
        /\ status # "abort"
        /\ Finished =>
              /\ status = "returned"
              /\ result = IntV(1)
              /\ log = << RegBase + 1, RunBase + 1 >>

\* The events of the log up to the i-th that are equal to n.
Seen(i, n) == Cardinality({ j \in 1..i : log[j] = n })

\* C33: for every exit of a block, by its end, a break, a continue, a
\* return or a throw, each defer registered before the exit runs exactly
\* once: a body never runs more often than its defer was registered, also
\* when an exception is thrown during or after a replay or when the block
\* goes on after the body ran as exception handler, and when the run is
\* over every body has run as often as its defer was registered.
C33_DefersRunOnce ==
    /\ \A i \in 1..Len(log) :
          (log[i] >= RunBase /\ log[i] < ChkBase) =>
              Seen(i, log[i]) <= Seen(i, log[i] - RunBase + RegBase)
    /\ Finished =>
          \A i \in 1..Len(log) :
              (log[i] >= RegBase /\ log[i] < RunBase) =>
                  Seen(Len(log), log[i]) = Seen(Len(log), log[i] - RegBase + RunBase)
    /\ (prog = CompiledProg(42) /\ Finished) =>
          /\ status = "returned"
          /\ log = << RegBase + 1, RegBase + 2, RunBase + 2, RunBase + 1, ChkBase,
                      RegBase + 3, RegBase + 4, RunBase + 4, ChkBase + 1,
                      RunBase + 3, ChkBase >>

\* SrcDeferOnce is over: the second defer was replayed before the throw and
\* the fourth ran as handler before the end of its block, each once.
C33_Witness ==
    /\ prog = CompiledProg(42) /\ status = "returned"
    /\ Seen(Len(log), RunBase + 2) = 1 /\ Seen(Len(log), RunBase + 4) = 1
    /\ Len(log) = 11 /\ exception_stack = <<>>

(***************************************************************************)
(* Claims about the virtual machine and its host.                          *)
(***************************************************************************)

\* C35: while the VM is rooted, VM::trace reports every handle the VM
\* holds, the send-fallback trampoline included: whatever collections the
\* host has run, the trampoline is still valid, and no run ends with the
\* std::runtime_error of an invalid pointer.
C35_TrampolineTraced ==
    /\ SendFallbackFn \notin invalid
    /\ status # "error"

\* C36: when a foreign function that called back into the VM returns, the
\* outer run continues with the call stack and the exception stack it had
\* at the foreign call, and with the data stack it had plus the result of
\* the foreign function.
C36_Step ==
    (status' = "running" /\ ~exception_thrown /\ Len(foreign') < Len(foreign)) =>
        LET act == foreign[Len(foreign)]
        IN /\ call_stack' = act.call_stack
           /\ exception_stack' = act.exception_stack
           /\ Len(data_stack') = Len(act.data_stack) + 1
           /\ \A i \in 1..Len(act.data_stack) : data_stack'[i] = act.data_stack[i]
           /\ data_stack'[Len(data_stack')].value.t = "arr"
C36_OuterRunContinues == [][C36_Step]_vars

====
